---- MODULE Spec2Model ----
(***************************************************************************)
(* clox: the bytecode compiler / stack VM / mark-sweep collector of        *)
(* archermarx/clox, modelled as a state machine.                           *)
(*                                                                         *)
(* One record, vm, holds the C globals `vm` (struct VM), the heap behind   *)
(* vm.objects, the compiler chain `current` and the compile-time option    *)
(* CLOX_STRESS_GC.  The compiler is modelled by the calls it makes into    *)
(* the object system (init_compiler, emit_byte, copy_string,               *)
(* make_constant, patch_jump, end_compiler, error_at); each source text is *)
(* the sequence of those calls the parser issues for it.  The chunk holds  *)
(* the real bytes and run() decodes them.                                  *)
(*                                                                         *)
(* Byte strings are kept run-length encoded: <<c, n>> is n copies of the   *)
(* character c, and adjacent runs never carry the same character, so two   *)
(* encodings are equal exactly when the byte strings are.                  *)
(***************************************************************************)
EXTENDS Integers, Sequences, FiniteSets, TLC

VARIABLES vm, parser, pc, returned, events, calls, before, snap, heights, tbl, hashing,
          unit, lexing, conv, writing

vars ==
  <<vm, parser, pc, returned, events, calls, before, snap, heights, tbl, hashing,
    unit, lexing, conv, writing>>

-----------------------------------------------------------------------------
(* Program constants *)

FRAMES_MAX == 64
UINT8_MAX == 255
STACK_MAX == FRAMES_MAX * UINT8_MAX
LOX_INITIAL_ALLOC_SIZE == 8
INITIAL_NEXT_GC == 1024 * 1024

OP_RETURN == 0
OP_TRUE == 1
OP_FALSE == 2
OP_NIL == 3
OP_CONSTANT == 4
OP_DEFINE_GLOBAL == 5
OP_GET_GLOBAL == 6
OP_SET_GLOBAL == 7
OP_GET_LOCAL == 8
OP_SET_LOCAL == 9
OP_GET_UPVALUE == 10
OP_SET_UPVALUE == 11
OP_GET_PROPERTY == 12
OP_SET_PROPERTY == 13
OP_CLOSE_UPVALUE == 14
OP_NOT == 15
OP_NEGATE == 16
OP_ADD == 17
OP_SUB == 18
OP_MUL == 19
OP_DIV == 20
OP_GREATER == 21
OP_LESS == 22
OP_EQUAL == 23
OP_POP == 24
OP_JUMP == 25
OP_JUMP_IF_FALSE == 26
OP_LOOP == 27
OP_CALL == 28
OP_CLOSURE == 29
OP_CLASS == 30
OP_METHOD == 31
OP_INVOKE == 32
OP_INHERIT == 33
OP_GET_SUPER == 34
OP_INVOKE_SUPER == 35

(* sizeof of the structures on the LP64 build with NaN boxing *)
SizeofLoxBoundMethod == 32
SizeofLoxClass == 48
SizeofLoxClosure == 40
SizeofLoxFunction == 88
SizeofLoxInstance == 48
SizeofLoxNative == 24
SizeofLoxString == 40
SizeofLoxUpvalue == 40
SizeofEntry == 16
SizeofValue == 8
SizeofPointer == 8
SizeofLineNumber == 4
SizeofObjTypeConstant == 4

-----------------------------------------------------------------------------
(* Values (value.h) *)

NIL_VAL == [t |-> "nil", v |-> 0]
BOOL_VAL(b) == [t |-> "bool", v |-> IF b THEN 1 ELSE 0]
NUMBER_VAL(n) == [t |-> "number", v |-> n]
OBJ_VAL(o) == [t |-> "obj", v |-> o]

IS_NIL(value) == value.t = "nil"
IS_BOOL(value) == value.t = "bool"
IS_NUMBER(value) == value.t = "number"
IS_OBJ(value) == value.t = "obj"
AS_BOOL(value) == value.v = 1
AS_NUMBER(value) == value.v
AS_OBJ(value) == value.v

values_equal(a, b) == a = b

is_falsey(value) == IS_NIL(value) \/ (IS_BOOL(value) /\ ~AS_BOOL(value))

-----------------------------------------------------------------------------
(* Byte strings, run-length encoded *)

Concat(a, b) ==
  IF Len(a) = 0 THEN b
  ELSE IF Len(b) = 0 THEN a
  ELSE IF a[Len(a)][1] = b[1][1]
       THEN SubSeq(a, 1, Len(a) - 1) \o <<<<b[1][1], a[Len(a)][2] + b[1][2]>>>> \o Tail(b)
       ELSE a \o b

RECURSIVE StrLen(_)
StrLen(chars) == IF Len(chars) = 0 THEN 0 ELSE chars[1][2] + StrLen(Tail(chars))

-----------------------------------------------------------------------------
(* memory.h *)

GROW_CAPACITY(capacity) ==
  IF capacity < LOX_INITIAL_ALLOC_SIZE THEN LOX_INITIAL_ALLOC_SIZE ELSE (capacity * 3) \div 2
(* a table capacity that grows by half, as the other arrays do *)
GROW_TABLE_CAPACITY_BY_HALF(capacity) ==
  IF capacity < LOX_INITIAL_ALLOC_SIZE THEN LOX_INITIAL_ALLOC_SIZE ELSE (capacity * 3) \div 2

(* a table capacity that starts at half the initial size and never grows *)
GROW_TABLE_CAPACITY_ONCE(capacity) ==
  IF capacity < LOX_INITIAL_ALLOC_SIZE \div 2 THEN LOX_INITIAL_ALLOC_SIZE \div 2 ELSE capacity

GROW_TABLE_CAPACITY(capacity) ==
  IF capacity < LOX_INITIAL_ALLOC_SIZE THEN LOX_INITIAL_ALLOC_SIZE ELSE capacity * 2

-----------------------------------------------------------------------------
(* Tables (table.c).  A table is its live entries (key object -> value),   *)
(* its capacity, its count (which also counts tombstones) and the          *)
(* tombstones, each remembered by the characters of the key it replaced.   *)
(* Slot indices are not modelled: a new key lands on a tombstone exactly   *)
(* when a key of the same characters (same hash, same probe sequence) left *)
(* it, and in an empty slot otherwise.                                     *)

EmptyEntries == [k \in {} |-> NIL_VAL]

init_table == [count |-> 0, capacity |-> 0, entries |-> EmptyEntries, tombs |-> {}]

GetTable(m, ref) ==
  CASE ref[1] = "strings" -> m.strings
    [] ref[1] = "globals" -> m.globals
    [] ref[1] = "methods" -> m.heap[ref[2]].methods
    [] ref[1] = "fields" -> m.heap[ref[2]].fields

PutTable(m, ref, t) ==
  CASE ref[1] = "strings" -> [m EXCEPT !.strings = t]
    [] ref[1] = "globals" -> [m EXCEPT !.globals = t]
    [] ref[1] = "methods" -> [m EXCEPT !.heap[ref[2]].methods = t]
    [] ref[1] = "fields" -> [m EXCEPT !.heap[ref[2]].fields = t]

table_has(table, key) == table.count # 0 /\ key \in DOMAIN table.entries

table_get(table, key) == table.entries[key]

Keys(table) == DOMAIN table.entries

Drop(entries, gone) == [k \in (DOMAIN entries) \ gone |-> entries[k]]

-----------------------------------------------------------------------------
(* memory.c: reallocate and the collector *)

ValueRefs(value) == IF IS_OBJ(value) THEN {AS_OBJ(value)} ELSE {}

SeqRefs(values) == UNION {ValueRefs(values[i]) : i \in 1..Len(values)}

TableRefs(table) == Keys(table) \cup UNION {ValueRefs(table.entries[k]) : k \in Keys(table)}

(* mark_roots: the objects it hands to mark_object *)
Roots(m) ==
  (SeqRefs(m.stack)
     \cup {m.frames[i].closure : i \in 1..Len(m.frames)}
     \cup {m.open_upvalues[i] : i \in 1..Len(m.open_upvalues)}
     \cup TableRefs(m.globals)
     \cup {m.current[i].function : i \in 1..Len(m.current)}
     \cup {m.init_string}) \ {0}

(* blacken_object: the objects it hands to mark_object *)
Blacken(object) ==
  (CASE object.type = "LOX_BOUND_METHOD_T" -> ValueRefs(object.receiver) \cup {object.method}
     [] object.type = "LOX_CLASS_T" -> {object.name} \cup TableRefs(object.methods)
     [] object.type = "LOX_CLOSURE_T" ->
          {object.function} \cup {object.upvalues[i] : i \in 1..Len(object.upvalues)}
     [] object.type = "LOX_FUNCTION_T" -> {object.name} \cup SeqRefs(object.constants)
     [] object.type = "LOX_INSTANCE_T" -> {object.klass} \cup TableRefs(object.fields)
     [] object.type = "LOX_UPVALUE_T" -> ValueRefs(object.closed)
     [] OTHER -> {}) \ {0}

(* mark_object on a set of objects: those not yet marked get marked and gray *)
Unmarked(heap, objs) == {o \in objs : ~heap[o].is_marked}

RECURSIVE MarkAll(_, _)
MarkAll(heap, objs) ==
  IF objs = {} THEN heap
  ELSE LET o == CHOOSE x \in objs : TRUE
       IN MarkAll([heap EXCEPT ![o].is_marked = TRUE], objs \ {o})

RECURSIVE trace_references(_, _)
trace_references(heap, gray) ==
  IF gray = {} THEN heap
  ELSE trace_references(MarkAll(heap, Unmarked(heap, UNION {Blacken(heap[o]) : o \in gray})),
                        Unmarked(heap, UNION {Blacken(heap[o]) : o \in gray}))

(* mark_roots followed by trace_references *)
mark_roots(m) ==
  [m EXCEPT !.heap = trace_references(MarkAll(m.heap, Unmarked(m.heap, Roots(m))),
                                      Unmarked(m.heap, Roots(m)))]

White(m) == {k \in Keys(m.strings) : ~m.heap[k].is_marked}

table_remove_white(m) ==
  [m EXCEPT !.strings.entries = Drop(@, White(m)),
            !.strings.tombs = @ \cup {m.heap[k].chars : k \in White(m)}]

(* the objects reachable from the roots, by the references blacken_object follows *)
RECURSIVE Reachable(_, _, _)
Reachable(heap, seen, frontier) ==
  IF frontier = {} THEN seen
  ELSE Reachable(heap, seen \cup ((UNION {Blacken(heap[o]) : o \in frontier}) \ seen),
                 (UNION {Blacken(heap[o]) : o \in frontier}) \ seen)

Listed(m) == {m.objects[i] : i \in 1..Len(m.objects)}

IndexOf(seq, x) == CHOOSE i \in 1..Len(seq) : seq[i] = x

NextObj(m, object) ==
  IF IndexOf(m.objects, object) = Len(m.objects) THEN 0
  ELSE m.objects[IndexOf(m.objects, object) + 1]

Unlink(objects, object) == SelectSeq(objects, LAMBDA o : o # object)

RECURSIVE reallocate(_, _, _), collect_garbage(_), sweep(_, _, _), free_object(_, _)

(* reallocate: the accounting and the two collection triggers; the block   *)
(* itself is released by the caller's record of the object.                *)
(* bytes_allocated is a size_t: a negative value here stands for that      *)
(* value plus 2^64, which is above every threshold.                        *)
OverThreshold(m) == m.bytes_allocated < 0 \/ m.bytes_allocated > m.next_gc

StressCollect(m, grows) == IF m.stress /\ grows THEN collect_garbage(m) ELSE m

ThresholdCollect(m) == IF OverThreshold(m) THEN collect_garbage(m) ELSE m

reallocate(m, old_size, new_size) ==
  ThresholdCollect(
    StressCollect([m EXCEPT !.bytes_allocated = @ + new_size - old_size],
                  new_size > old_size))

Release(m, object) == [m EXCEPT !.heap[object].live = FALSE]

free_object(m, object) ==
  Release(
    CASE m.heap[object].type = "LOX_BOUND_METHOD_T" -> reallocate(m, SizeofLoxBoundMethod, 0)
      [] m.heap[object].type = "LOX_CLASS_T" ->
           reallocate(reallocate(m, SizeofEntry * m.heap[object].methods.capacity, 0),
                      SizeofLoxClass, 0)
      [] m.heap[object].type = "LOX_CLOSURE_T" ->
           reallocate(reallocate(m, SizeofPointer * m.heap[object].upvalue_count, 0),
                      SizeofLoxClosure, 0)
      [] m.heap[object].type = "LOX_FUNCTION_T" ->
           reallocate(
             reallocate(
               reallocate(
                 reallocate(m, m.heap[object].capacity, 0),
                 SizeofLineNumber * m.heap[object].capacity, 0),
               SizeofValue * m.heap[object].constants_capacity, 0),
             SizeofLoxFunction, 0)
      [] m.heap[object].type = "LOX_INSTANCE_T" ->
           reallocate(reallocate(m, SizeofEntry * m.heap[object].fields.capacity, 0),
                      SizeofObjTypeConstant, 0)
      [] m.heap[object].type = "LOX_STRING_T" ->
           reallocate(reallocate(m, m.heap[object].length + 1, 0), SizeofLoxString, 0)
      [] m.heap[object].type = "LOX_NATIVE_T" -> reallocate(m, SizeofObjTypeConstant, 0)
      [] m.heap[object].type = "LOX_UPVALUE_T" -> reallocate(m, SizeofLoxUpvalue, 0),
    object)

(* sweep: `previous` and `object` are the two C locals (0 is NULL).  Both  *)
(* are dereferenced again after free_object returns; when a collection     *)
(* entered from that free has released them, the access is undefined.      *)
sweep(m, previous, object) ==
  IF m.ub \/ object = 0 THEN m
  ELSE IF ~m.heap[object].live THEN [m EXCEPT !.ub = TRUE]
  ELSE IF m.heap[object].is_marked
       THEN sweep([m EXCEPT !.heap[object].is_marked = FALSE], object, NextObj(m, object))
  ELSE IF previous # 0 /\ ~m.heap[previous].live THEN [m EXCEPT !.ub = TRUE]
  ELSE sweep(free_object([m EXCEPT !.objects = Unlink(@, object)], object),
             previous, NextObj(m, object))

EnterCollect(m) ==
  [m EXCEPT !.collecting = @ + 1,
            !.collections = @ + 1,
            !.reentered = @ \/ m.collecting > 0]

SweepAll(m) == sweep(m, 0, IF Len(m.objects) = 0 THEN 0 ELSE m.objects[1])

LeaveCollect(m) ==
  [m EXCEPT !.next_gc = (m.bytes_allocated * 3) \div 2,
            !.collecting = @ - 1]

(* what a collection that has run to its end left, against the machine it *)
(* started from: the list holds exactly the objects that were reachable,   *)
(* none of them is marked, and the strings table has kept the entries of   *)
(* the strings that are still allocated and in the list, and only those    *)
Survivors(m) == {o \in Listed(m) : m.heap[o].live}

Audit(m, start) ==
  IF m.ub THEN m
  ELSE [m EXCEPT !.exact = @ /\ Listed(m) = Reachable(start.heap, Roots(start), Roots(start)),
                 !.unmarked = @ /\ \A o \in Listed(m) : ~m.heap[o].is_marked,
                 !.interned = @ /\ Keys(m.strings) = Keys(start.strings) \cap Survivors(m)]

collect_garbage(m) ==
  IF m.ub THEN m
  ELSE Audit(LeaveCollect(SweepAll(table_remove_white(mark_roots(EnterCollect(m))))), m)

-----------------------------------------------------------------------------
(* The value stack (push, pop, peek).  A pointer into the stack is its     *)
(* offset from vm.stack, so offset k is stack[k + 1].  births[k + 1]       *)
(* numbers the push that created that slot, so that two captures of one    *)
(* local can be told from captures of two locals that used the same slot   *)
(* one after the other.                                                    *)

push(m, value) ==
  [m EXCEPT !.stack = Append(@, value),
            !.births = Append(@, m.tick + 1),
            !.tick = @ + 1,
            !.ub = @ \/ Len(m.stack) >= STACK_MAX]

pop(m) ==
  IF Len(m.stack) = 0 THEN [m EXCEPT !.ub = TRUE]
  ELSE [m EXCEPT !.stack = SubSeq(@, 1, Len(@) - 1),
                 !.births = SubSeq(@, 1, Len(@) - 1)]

RECURSIVE popn(_, _)
popn(m, n) == IF n = 0 THEN m ELSE popn(pop(m), n - 1)

peek(m, distance) == m.stack[Len(m.stack) - distance]

(* reset_stack, dropping the globals with the stack *)
reset_stack_globals(m) ==
  [m EXCEPT !.stack = <<>>, !.births = <<>>, !.frames = <<>>, !.open_upvalues = <<>>,
            !.globals = init_table]

reset_stack(m) ==
  [m EXCEPT !.stack = <<>>, !.births = <<>>, !.frames = <<>>, !.open_upvalues = <<>>]

-----------------------------------------------------------------------------
(* table.c, on the tables of the machine *)

(* adjust_capacity after its ALLOCATE: the entries are copied into the new  *)
(* array, then the old array is freed and the table pointed at the new one *)
Reinsert(m, ref, capacity) ==
  PutTable(reallocate(m, SizeofEntry * GetTable(m, ref).capacity, 0), ref,
           [count |-> Cardinality(Keys(GetTable(m, ref))), capacity |-> capacity,
            entries |-> GetTable(m, ref).entries, tombs |-> {}])

adjust_capacity(m, ref, capacity) ==
  Reinsert(reallocate(m, 0, SizeofEntry * capacity), ref, capacity)

(* table_set after the capacity check *)
SetEntry(m, ref, key, value) ==
  LET table == GetTable(m, ref)
      is_new_key == key \notin Keys(table)
      on_tombstone == is_new_key /\ m.heap[key].chars \in table.tombs
  IN PutTable(m, ref,
       [table EXCEPT !.entries = (key :> value) @@ @,
                     !.count = IF is_new_key /\ ~on_tombstone THEN @ + 1 ELSE @,
                     !.tombs = IF on_tombstone THEN @ \ {m.heap[key].chars} ELSE @])

table_set(m, ref, key, value) ==
  SetEntry(IF 4 * (GetTable(m, ref).count + 1) > 3 * GetTable(m, ref).capacity
           THEN adjust_capacity(m, ref, GROW_TABLE_CAPACITY(GetTable(m, ref).capacity))
           ELSE m,
           ref, key, value)

table_delete(m, ref, key) ==
  LET table == GetTable(m, ref)
  IN IF ~table_has(table, key) THEN m
     ELSE PutTable(m, ref, [table EXCEPT !.entries = Drop(@, {key}),
                                         !.tombs = @ \cup {m.heap[key].chars}])

Least(S) == CHOOSE x \in S : \A y \in S : x <= y

RECURSIVE table_add_all(_, _, _, _)
table_add_all(m, entries, keys, to) ==
  IF keys = {} THEN m
  ELSE LET key == Least(keys)
       IN table_add_all(table_set(m, to, key, entries[key]), entries, keys \ {key}, to)

(* a table_find_string whose probe never matches a key *)
table_find_string_none(m, chars) ==
  LET found == {k \in Keys(m.strings) : FALSE}
  IN IF m.strings.count = 0 \/ found = {} THEN 0 ELSE Least(found)

(* table_find_string: the interned string with these characters, or 0 *)
table_find_string(m, chars) ==
  LET found == {k \in Keys(m.strings) : m.heap[k].chars = chars}
  IN IF m.strings.count = 0 \/ found = {} THEN 0 ELSE Least(found)

-----------------------------------------------------------------------------
(* object.c *)

(* allocate_object after its reallocate: the object is linked at the head  *)
(* of vm.objects                                                           *)
Link(m, object) ==
  [m EXCEPT !.heap = Append(@, object),
            !.objects = <<Len(m.heap) + 1>> \o @,
            !.ret = Len(m.heap) + 1]

allocate_object(m, size, object) == Link(reallocate(m, 0, size), object)

new_bound_method(m, receiver, method) ==
  allocate_object(m, SizeofLoxBoundMethod,
    [type |-> "LOX_BOUND_METHOD_T", is_marked |-> FALSE, live |-> TRUE,
     receiver |-> receiver, method |-> method])

new_class(m, name) ==
  allocate_object(m, SizeofLoxClass,
    [type |-> "LOX_CLASS_T", is_marked |-> FALSE, live |-> TRUE,
     name |-> name, methods |-> init_table, super |-> 0])

RECURSIVE Nulls(_)
Nulls(count) == IF count = 0 THEN <<>> ELSE Append(Nulls(count - 1), 0)

(* new_closure after the closure is allocated: the array of upvalues *)
AllocateUpvalues(m, count) ==
  [pop(reallocate(push(m, OBJ_VAL(m.ret)), 0, SizeofPointer * count))
     EXCEPT !.heap[m.ret].upvalues = Nulls(count), !.ret = m.ret]

new_closure(m, function) ==
  AllocateUpvalues(
    allocate_object(m, SizeofLoxClosure,
      [type |-> "LOX_CLOSURE_T", is_marked |-> FALSE, live |-> TRUE,
       function |-> function, upvalue_count |-> m.heap[function].upvalue_count,
       upvalues |-> <<>>, home |-> 0]),
    m.heap[function].upvalue_count)

new_function(m) ==
  allocate_object(m, SizeofLoxFunction,
    [type |-> "LOX_FUNCTION_T", is_marked |-> FALSE, live |-> TRUE,
     arity |-> 0, upvalue_count |-> 0, name |-> 0,
     code |-> <<>>, capacity |-> 0, constants |-> <<>>, constants_capacity |-> 0])

new_instance(m, klass) ==
  allocate_object(m, SizeofLoxInstance,
    [type |-> "LOX_INSTANCE_T", is_marked |-> FALSE, live |-> TRUE,
     klass |-> klass, fields |-> init_table])

new_native(m, function) ==
  allocate_object(m, SizeofLoxNative,
    [type |-> "LOX_NATIVE_T", is_marked |-> FALSE, live |-> TRUE, function |-> function])

(* allocate_string after the string is allocated: it is interned *)
Intern(m) ==
  [pop(table_set(push(m, OBJ_VAL(m.ret)), <<"strings", 0>>, m.ret, NIL_VAL))
     EXCEPT !.ret = m.ret]

allocate_string(m, chars, length) ==
  Intern(allocate_object(m, SizeofLoxString,
           [type |-> "LOX_STRING_T", is_marked |-> FALSE, live |-> TRUE,
            chars |-> chars, length |-> length]))

(* take_string: the caller has already accounted for the length + 1 bytes *)
take_string(m, chars, length) ==
  LET interned == table_find_string(m, chars)
  IN IF interned # 0
     THEN [reallocate(m, length + 1, 0) EXCEPT !.ret = interned]
     ELSE allocate_string(m, chars, length)

copy_string(m, chars) ==
  LET interned == table_find_string(m, chars)
      length == StrLen(chars)
  IN IF interned # 0
     THEN [m EXCEPT !.ret = interned]
     ELSE allocate_string(reallocate(m, 0, length + 1), chars, length)

new_upvalue(m, slot) ==
  allocate_object(m, SizeofLoxUpvalue,
    [type |-> "LOX_UPVALUE_T", is_marked |-> FALSE, live |-> TRUE,
     location |-> slot, closed |-> NIL_VAL, origin |-> m.births[slot + 1]])

-----------------------------------------------------------------------------
(* vm.c: init_vm.  The fields error, errors, called, dispatched, halt,     *)
(* collecting, collections, reentered, exact, unmarked and interned record *)
(* what the code did; ok and                                               *)
(* ret carry the C return values of the function modelled last.            *)

RECURSIVE Chars(_)
Chars(letters) ==
  IF Len(letters) = 0 THEN <<>> ELSE Concat(<<<<Head(letters), 1>>>>, Chars(Tail(letters)))

NoCall == [closure |-> 0, arg_count |-> 0, frame_count |-> 0, stack_top |-> 0]

ZeroedVM(stress) ==
  [stack |-> <<>>, births |-> <<>>, tick |-> 0, frames |-> <<>>,
   strings |-> init_table, globals |-> init_table, init_string |-> 0,
   open_upvalues |-> <<>>, bytes_allocated |-> 0, next_gc |-> 0,
   objects |-> <<>>, heap |-> <<>>, current |-> <<>>,
   stress |-> stress, ub |-> FALSE,
   error |-> "", errors |-> 0, called |-> NoCall, dispatched |-> 0, halt |-> "",
   collecting |-> 0, collections |-> 0, reentered |-> FALSE, exact |-> TRUE, unmarked |-> TRUE,
   interned |-> TRUE,
   ok |-> TRUE, ret |-> 0]

(* push(OBJ_VAL(object)) of the object the call before returned *)
PushRet(m) == push(m, OBJ_VAL(m.ret))

(* define_native's table_set(&vm.globals, vm.stack[0], vm.stack[1]) *)
SetNative(m) == table_set(m, <<"globals", 0>>, AS_OBJ(m.stack[1]), m.stack[2])

define_native(m, name, function) ==
  pop(pop(SetNative(PushRet(new_native(PushRet(copy_string(m, name)), function)))))

SetInitString(m) == [m EXCEPT !.init_string = m.ret]

init_vm(stress) ==
  define_native(
    define_native(
      define_native(
        SetInitString(
          copy_string([reset_stack(ZeroedVM(stress)) EXCEPT !.next_gc = INITIAL_NEXT_GC],
                      Chars(<<"i", "n", "i", "t">>))),
        Chars(<<"c", "l", "o", "c", "k">>), "clock_native"),
      Chars(<<"p", "r", "i", "n", "t">>), "print_native"),
    Chars(<<"p", "r", "i", "n", "t", "l", "n">>), "println_native")

-----------------------------------------------------------------------------
(* compiler.c and chunk.c: the calls of the compiler that change the       *)
(* machine.  current is the chain of Compiler structs, innermost first.    *)

current_function(m) == m.current[1].function

write_chunk(m, byte) ==
  LET f == current_function(m)
      old == m.heap[f].capacity
      grown == [m EXCEPT !.heap[f].capacity = GROW_CAPACITY(old)]
      m1 == IF Len(m.heap[f].code) >= old
            THEN reallocate(reallocate(grown, old, GROW_CAPACITY(old)),
                            SizeofLineNumber * old, SizeofLineNumber * GROW_CAPACITY(old))
            ELSE m
  IN [m1 EXCEPT !.heap[f].code = Append(@, byte)]

RECURSIVE emit_bytes(_, _)
emit_bytes(m, bytes) ==
  IF Len(bytes) = 0 THEN m ELSE emit_bytes(write_chunk(m, Head(bytes)), Tail(bytes))

write_value_array(m, f, value) ==
  LET old == m.heap[f].constants_capacity
      grown == [m EXCEPT !.heap[f].constants_capacity = GROW_CAPACITY(old)]
      m1 == IF Len(m.heap[f].constants) >= old
            THEN reallocate(grown, SizeofValue * old, SizeofValue * GROW_CAPACITY(old))
            ELSE m
  IN [m1 EXCEPT !.heap[f].constants = Append(@, value)]

add_constant(m, f, value) == pop(write_value_array(push(m, value), f, value))

make_constant(m, value) == add_constant(m, current_function(m), value)

(* init_compiler after new_function: current = compiler *)
EnterCompiler(m, type) ==
  [m EXCEPT !.current = <<[function |-> m.ret, type |-> type, local_count |-> 1]>> \o @]

SetName(m) == [m EXCEPT !.heap[current_function(m)].name = m.ret]

init_compiler(m, type, name) ==
  IF type = "TYPE_SCRIPT"
  THEN EnterCompiler(new_function(m), type)
  ELSE SetName(copy_string(EnterCompiler(new_function(m), type), name))

(* add_local: the locals array is full at UINT8_MAX entries, and the error *)
(* it reports then                                                         *)
LocalsFull(m) == m.current[1].local_count = UINT8_MAX

add_local(m) == IF LocalsFull(m) THEN m ELSE [m EXCEPT !.current[1].local_count = @ + 1]

(* end_scope: the local_count-- that follows the OP_POP or OP_CLOSE_UPVALUE *)
end_scope(m) == [m EXCEPT !.current[1].local_count = @ - 1]

(* an emit_return that forgets the initializer's `this` *)
emit_return_nil(m) == emit_bytes(m, <<OP_NIL, OP_RETURN>>)

emit_return(m) ==
  IF m.current[1].type = "TYPE_INITIALIZER"
  THEN emit_bytes(m, <<OP_GET_LOCAL, 0, OP_RETURN>>)
  ELSE emit_bytes(m, <<OP_NIL, OP_RETURN>>)

(* end_compiler after emit_return: current = current->enclosing *)
LeaveCompiler(m) == [m EXCEPT !.current = Tail(@), !.ret = current_function(m)]

end_compiler(m) == LeaveCompiler(emit_return(m))

patch_jump(m, offset, high, low) ==
  [m EXCEPT !.heap[current_function(m)].code[offset + 1] = high,
            !.heap[current_function(m)].code[offset + 2] = low]

(* error_at that reports whatever the mode *)
error_at_again(p) ==
  [p EXCEPT !.panic_mode = TRUE, !.had_error = TRUE, !.printed = @ + 1]

(* error_at: printed counts the messages written to stderr, suppressed the *)
(* calls that returned at the test of panic_mode                           *)
error_at(p) ==
  IF p.panic_mode THEN [p EXCEPT !.suppressed = @ + 1]
  ELSE [p EXCEPT !.panic_mode = TRUE, !.had_error = TRUE, !.printed = @ + 1]

(* the token types at which synchronize returns *)
StatementStart ==
  {"TOKEN_CLASS", "TOKEN_FUN", "TOKEN_VAR", "TOKEN_FOR", "TOKEN_IF", "TOKEN_WHILE",
   "TOKEN_RETURN", "TOKEN_BREAK"}

(* advance: the error tokens the lexer gives from place i of tokens on     *)
(* are reported with error_at_current, the first other token is current    *)
RECURSIVE Advanced(_, _, _)
Advanced(p, tokens, i) ==
  IF tokens[i] = "TOKEN_ERROR" THEN Advanced(error_at(p), tokens, i + 1)
  ELSE [p EXCEPT !.stopped = <<p.stopped[2], tokens[i]>>, !.lexed = i]

(* synchronize: the while loop; stopped is <<parser.previous.type,         *)
(* parser.current.type>>, lexed the place in tokens of parser.current      *)
RECURSIVE SyncLoop(_, _)
SyncLoop(p, tokens) ==
  IF p.stopped[2] = "TOKEN_EOF" THEN p
  ELSE IF p.stopped[1] = "TOKEN_SEMICOLON" THEN p
  ELSE IF p.stopped[2] \in StatementStart THEN p
  ELSE SyncLoop(Advanced(p, tokens, p.lexed + 1), tokens)

(* synchronize, with parser.previous, parser.current and the tokens the    *)
(* lexer gives after them; synced is the value of printed when panic_mode  *)
(* was cleared                                                             *)
synchronize(p, tokens) ==
  SyncLoop([p EXCEPT !.panic_mode = FALSE, !.synced = p.printed,
                     !.stopped = <<tokens[1], tokens[2]>>, !.lexed = 2],
           tokens)

(* a compile that returns the function whatever was reported *)
compile_anyway(had_error, function) == function

(* compile's result: NULL (0) when an error was reported *)
compile(had_error, function) == IF had_error THEN 0 ELSE function

-----------------------------------------------------------------------------
(* vm.c: the helpers of run *)

CLOSED == -1

Frame(m) == m.frames[Len(m.frames)]

FrameFunction(m) == m.heap[m.heap[Frame(m).closure].function]

ObjType(m, value) == IF IS_OBJ(value) THEN m.heap[AS_OBJ(value)].type ELSE "none"

IS_STRING(m, value) == ObjType(m, value) = "LOX_STRING_T"

IS_INSTANCE(m, value) == ObjType(m, value) = "LOX_INSTANCE_T"

IS_CLASS(m, value) == ObjType(m, value) = "LOX_CLASS_T"

runtime_error(m, message) ==
  [reset_stack(m) EXCEPT !.error = message, !.errors = @ + 1]

SetSlot(m, offset, value) == [m EXCEPT !.stack[offset + 1] = value]

Truncate(m, offset) ==
  [m EXCEPT !.stack = SubSeq(@, 1, offset), !.births = SubSeq(@, 1, offset)]

(* a call without the check of frame_count against FRAMES_MAX *)
call_unbounded(m, closure, arg_count) ==
  LET arity == m.heap[m.heap[closure].function].arity
      entered == [m EXCEPT !.called = [closure |-> closure, arg_count |-> arg_count,
                                       frame_count |-> Len(m.frames),
                                       stack_top |-> Len(m.stack)]]
  IN IF arg_count # arity
     THEN [runtime_error(entered, "Expected %d arguments but got %d.") EXCEPT !.ok = FALSE]
     ELSE [entered EXCEPT !.frames = Append(@, [closure |-> closure, ip |-> 0,
                                                slots |-> Len(m.stack) - arg_count - 1,
                                                init_of |-> 0]),
                          !.ok = TRUE]

call(m, closure, arg_count) ==
  LET arity == m.heap[m.heap[closure].function].arity
      entered == [m EXCEPT !.called = [closure |-> closure, arg_count |-> arg_count,
                                       frame_count |-> Len(m.frames),
                                       stack_top |-> Len(m.stack)]]
  IN IF arg_count # arity
     THEN [runtime_error(entered, "Expected %d arguments but got %d.") EXCEPT !.ok = FALSE]
     ELSE IF Len(m.frames) = FRAMES_MAX
     THEN [runtime_error(entered, "Stack overflow.") EXCEPT !.ok = FALSE]
     ELSE [entered EXCEPT !.frames = Append(@, [closure |-> closure, ip |-> 0,
                                                slots |-> Len(m.stack) - arg_count - 1,
                                                init_of |-> 0]),
                          !.ok = TRUE]

Native(function, clock) ==
  IF function = "clock_native" THEN NUMBER_VAL(clock) ELSE NIL_VAL

(* the frame call pushed for an initializer remembers the instance *)
Initializing(m, instance) ==
  IF m.ok THEN [m EXCEPT !.frames[Len(m.frames)].init_of = instance] ELSE m

(* call_value on a class, after new_instance: the instance (m.ret) takes   *)
(* the callee's slot, then the initializer is looked up                    *)
Construct(m, klass, arg_count) ==
  IF table_has(m.heap[klass].methods, m.init_string)
  THEN Initializing(call(m, AS_OBJ(table_get(m.heap[klass].methods, m.init_string)),
                         arg_count),
                    m.ret)
  ELSE IF arg_count # 0
  THEN [runtime_error(m, "Exected 0 arguments but got %d.") EXCEPT !.ok = TRUE]
  ELSE [m EXCEPT !.ok = TRUE]

Place(m, slot) == SetSlot(m, slot, OBJ_VAL(m.ret))

call_value(m, callee, arg_count, clock) ==
  LET type == ObjType(m, callee)
      object == m.heap[AS_OBJ(callee)]
      receiver_slot == Len(m.stack) - arg_count - 1
  IN CASE type = "LOX_BOUND_METHOD_T" ->
            call(SetSlot(m, receiver_slot, object.receiver), object.method, arg_count)
       [] type = "LOX_CLASS_T" ->
            Construct(Place(new_instance(m, AS_OBJ(callee)), receiver_slot),
                      AS_OBJ(callee), arg_count)
       [] type = "LOX_CLOSURE_T" -> call(m, AS_OBJ(callee), arg_count)
       [] type = "LOX_NATIVE_T" ->
            [push(popn(m, arg_count + 1), Native(object.function, clock)) EXCEPT !.ok = TRUE]
       [] OTHER ->
            [runtime_error(m, "Can only call functions and classes.") EXCEPT !.ok = FALSE]

invoke_from_class(m, klass, name, arg_count) ==
  IF ~table_has(m.heap[klass].methods, name)
  THEN [runtime_error(m, "Undefined property '%s'.") EXCEPT !.ok = FALSE]
  ELSE call(m, AS_OBJ(table_get(m.heap[klass].methods, name)), arg_count)
(* invoke that leaves the receiver in the callee's slot when the name is a field *)
invoke_keep(m, name, arg_count, clock) ==
  LET receiver == peek(m, arg_count)
      instance == m.heap[AS_OBJ(receiver)]
  IN IF ~IS_INSTANCE(m, receiver)
     THEN [runtime_error(m, "Only instances have methods.") EXCEPT !.ok = FALSE]
     ELSE IF table_has(instance.fields, name)
     THEN call_value(m, table_get(instance.fields, name), arg_count, clock)
     ELSE invoke_from_class(m, instance.klass, name, arg_count)

invoke(m, name, arg_count, clock) ==
  LET receiver == peek(m, arg_count)
      instance == m.heap[AS_OBJ(receiver)]
  IN IF ~IS_INSTANCE(m, receiver)
     THEN [runtime_error(m, "Only instances have methods.") EXCEPT !.ok = FALSE]
     ELSE IF table_has(instance.fields, name)
     THEN call_value(SetSlot(m, Len(m.stack) - arg_count - 1, table_get(instance.fields, name)),
                     table_get(instance.fields, name), arg_count, clock)
     ELSE invoke_from_class(m, instance.klass, name, arg_count)

(* bind_method after new_bound_method: pop the receiver, push the bound method *)
PushBound(m) == [push(pop(m), OBJ_VAL(m.ret)) EXCEPT !.ok = TRUE]

bind_method(m, klass, name) ==
  IF ~table_has(m.heap[klass].methods, name)
  THEN [runtime_error(m, "Undefined property '%s.%s'.") EXCEPT !.ok = FALSE]
  ELSE PushBound(new_bound_method(m, peek(m, 0),
                                  AS_OBJ(table_get(m.heap[klass].methods, name))))

InsertUpvalue(m, above, rest) == [m EXCEPT !.open_upvalues = above \o <<m.ret>> \o rest]

(* capture_upvalue's loop: the number of upvalues it walks past from the   *)
(* head of the list, all of them above `local`                             *)
Walked(m, local) ==
  CHOOSE k \in 0..Len(m.open_upvalues) :
    /\ \A i \in 1..k : m.heap[m.open_upvalues[i]].location > local
    /\ k < Len(m.open_upvalues) => m.heap[m.open_upvalues[k + 1]].location <= local

(* a capture_upvalue that links every new upvalue at the head of the list *)
capture_upvalue_head(m, local) ==
  IF \E i \in 1..Len(m.open_upvalues) : m.heap[m.open_upvalues[i]].location = local
  THEN [m EXCEPT !.ret = m.open_upvalues[Walked(m, local) + 1]]
  ELSE InsertUpvalue(new_upvalue(m, local), <<>>, m.open_upvalues)

(* a capture_upvalue that never reuses an open upvalue *)
capture_upvalue_fresh(m, local) ==
  LET above == SubSeq(m.open_upvalues, 1, Walked(m, local))
      rest == SubSeq(m.open_upvalues, Len(above) + 1, Len(m.open_upvalues))
  IN InsertUpvalue(new_upvalue(m, local), above, rest)

(* capture_upvalue: open_upvalues is the list from vm.open_upvalues on,    *)
(* kept in order of decreasing location.                                   *)
capture_upvalue(m, local) ==
  LET above == SubSeq(m.open_upvalues, 1, Walked(m, local))
      rest == SubSeq(m.open_upvalues, Len(above) + 1, Len(m.open_upvalues))
  IN IF Len(rest) > 0 /\ m.heap[rest[1]].location = local
     THEN [m EXCEPT !.ret = rest[1]]
     ELSE InsertUpvalue(new_upvalue(m, local), above, rest)

(* a close_upvalues that leaves the upvalue of the slot `last` open *)
RECURSIVE close_upvalues_above(_, _)
close_upvalues_above(m, last) ==
  IF Len(m.open_upvalues) = 0 \/ m.heap[m.open_upvalues[1]].location <= last THEN m
  ELSE LET upvalue == m.open_upvalues[1]
       IN close_upvalues_above(
            [m EXCEPT !.heap[upvalue].closed = m.stack[m.heap[upvalue].location + 1],
                      !.heap[upvalue].location = CLOSED,
                      !.open_upvalues = Tail(@)],
            last)

RECURSIVE close_upvalues(_, _)
close_upvalues(m, last) ==
  IF Len(m.open_upvalues) = 0 \/ m.heap[m.open_upvalues[1]].location < last THEN m
  ELSE LET upvalue == m.open_upvalues[1]
       IN close_upvalues(
            [m EXCEPT !.heap[upvalue].closed = m.stack[m.heap[upvalue].location + 1],
                      !.heap[upvalue].location = CLOSED,
                      !.open_upvalues = Tail(@)],
            last)

define_method(m, name) ==
  LET method == peek(m, 0)
      klass == AS_OBJ(peek(m, 1))
      m1 == table_set(m, <<"methods", klass>>, name, method)
  IN pop([m1 EXCEPT !.heap[AS_OBJ(method)].home = klass])

(* concatenate after take_string: pop both operands, push the result *)
PushResult(m) == push(pop(pop(m)), OBJ_VAL(m.ret))

concatenate(m) ==
  LET b == m.heap[AS_OBJ(peek(m, 0))]
      a == m.heap[AS_OBJ(peek(m, 1))]
      length == a.length + b.length
  IN PushResult(take_string(reallocate(m, 0, length + 1), Concat(a.chars, b.chars), length))

-----------------------------------------------------------------------------
(* vm.c: run, one operator per case of the switch.  Each takes the machine *)
(* after the READ_BYTE that fetched the opcode.                            *)

Byte(m, k) == FrameFunction(m).code[Frame(m).ip + 1 + k]

READ_SHORT(m) == Byte(m, 0) * 256 + Byte(m, 1)

READ_CONSTANT(m, k) == FrameFunction(m).constants[Byte(m, k) + 1]

READ_STRING(m, k) == AS_OBJ(READ_CONSTANT(m, k))

Skip(m, n) == [m EXCEPT !.frames[Len(m.frames)].ip = @ + n]

Fail(m) == [m EXCEPT !.halt = "INTERPRET_RUNTIME_ERROR"]

(* frame = &vm.frames[vm.frame_count - 1] after a call that reported success *)
Checked(m) == IF ~m.ok THEN Fail(m) ELSE m

Reframe(m) ==
  IF ~m.ok THEN Fail(m)
  ELSE IF Len(m.frames) = 0 THEN [m EXCEPT !.ub = TRUE]
  ELSE m
(* an OP_RETURN that closes no upvalue of the returning frame *)
op_return_open(m) ==
  LET result == peek(m, 0)
      frame == Frame(m)
      m2 == [pop(m) EXCEPT !.frames = SubSeq(@, 1, Len(@) - 1)]
  IN IF Len(m2.frames) = 0
     THEN [pop(m2) EXCEPT !.halt = "INTERPRET_OK"]
     ELSE push(Truncate(m2, frame.slots), result)

(* an OP_RETURN that leaves the script's closure on the stack *)
op_return_keep(m) ==
  LET result == peek(m, 0)
      frame == Frame(m)
      m1 == close_upvalues(pop(m), frame.slots)
      m2 == [m1 EXCEPT !.frames = SubSeq(@, 1, Len(@) - 1)]
  IN IF Len(m2.frames) = 0
     THEN [m2 EXCEPT !.halt = "INTERPRET_OK"]
     ELSE push(Truncate(m2, frame.slots), result)

op_return(m) ==
  LET result == peek(m, 0)
      frame == Frame(m)
      m1 == close_upvalues(pop(m), frame.slots)
      m2 == [m1 EXCEPT !.frames = SubSeq(@, 1, Len(@) - 1)]
  IN IF Len(m2.frames) = 0
     THEN [pop(m2) EXCEPT !.halt = "INTERPRET_OK"]
     ELSE push(Truncate(m2, frame.slots), result)

op_constant(m) == push(Skip(m, 1), READ_CONSTANT(m, 0))

op_define_global(m) ==
  pop(table_set(Skip(m, 1), <<"globals", 0>>, READ_STRING(m, 0), peek(m, 0)))

op_get_global(m) ==
  IF ~table_has(m.globals, READ_STRING(m, 0))
  THEN Fail(runtime_error(Skip(m, 1), "Undefined variable '%s'."))
  ELSE push(Skip(m, 1), table_get(m.globals, READ_STRING(m, 0)))
(* an OP_SET_GLOBAL that keeps the key table_set has just added *)
op_set_global_keep(m) ==
  [table_set(Skip(m, 1), <<"globals", 0>>, READ_STRING(m, 0), peek(m, 0))
     EXCEPT !.halt = IF READ_STRING(m, 0) \notin Keys(m.globals)
                     THEN "INTERPRET_RUNTIME_ERROR" ELSE @,
            !.stack = IF READ_STRING(m, 0) \notin Keys(m.globals) THEN <<>> ELSE @,
            !.births = IF READ_STRING(m, 0) \notin Keys(m.globals) THEN <<>> ELSE @,
            !.frames = IF READ_STRING(m, 0) \notin Keys(m.globals) THEN <<>> ELSE @,
            !.open_upvalues = IF READ_STRING(m, 0) \notin Keys(m.globals) THEN <<>> ELSE @]

(* OP_SET_GLOBAL after table_set: a new key is deleted again *)
Undefine(m, name, is_new_key) ==
  IF is_new_key
  THEN Fail(runtime_error(table_delete(m, <<"globals", 0>>, name), "Undefined variable '%s'."))
  ELSE m

op_set_global(m) ==
  Undefine(table_set(Skip(m, 1), <<"globals", 0>>, READ_STRING(m, 0), peek(m, 0)),
           READ_STRING(m, 0), READ_STRING(m, 0) \notin Keys(m.globals))

op_get_local(m) == push(Skip(m, 1), m.stack[Frame(m).slots + Byte(m, 0) + 1])

op_set_local(m) == SetSlot(Skip(m, 1), Frame(m).slots + Byte(m, 0), peek(m, 0))

FrameUpvalue(m, slot) == m.heap[Frame(m).closure].upvalues[slot + 1]

op_get_upvalue(m) ==
  LET upvalue == m.heap[FrameUpvalue(m, Byte(m, 0))]
  IN push(Skip(m, 1),
          IF upvalue.location = CLOSED THEN upvalue.closed ELSE m.stack[upvalue.location + 1])

op_set_upvalue(m) ==
  LET upvalue == FrameUpvalue(m, Byte(m, 0))
  IN IF m.heap[upvalue].location = CLOSED
     THEN [Skip(m, 1) EXCEPT !.heap[upvalue].closed = peek(m, 0)]
     ELSE SetSlot(Skip(m, 1), m.heap[upvalue].location, peek(m, 0))

op_get_property(m) ==
  LET instance == m.heap[AS_OBJ(peek(m, 0))]
      name == READ_STRING(m, 0)
      m1 == Skip(m, 1)
  IN IF ~IS_INSTANCE(m, peek(m, 0))
     THEN Fail(runtime_error(m, "Only instances have properties."))
     ELSE IF table_has(instance.fields, name)
     THEN push(pop(m1), table_get(instance.fields, name))
     ELSE Checked(bind_method(m1, instance.klass, name))

(* OP_SET_PROPERTY after table_set: pop value and instance, push the value *)
PushValue(m) == push(pop(pop(m)), peek(m, 0))

op_set_property(m) ==
  IF ~IS_INSTANCE(m, peek(m, 1))
  THEN Fail(runtime_error(m, "Only instances have properties."))
  ELSE PushValue(table_set(Skip(m, 1), <<"fields", AS_OBJ(peek(m, 1))>>,
                           READ_STRING(m, 0), peek(m, 0)))

op_close_upvalue(m) == pop(close_upvalues(m, Len(m.stack) - 1))

op_negate(m) ==
  IF ~IS_NUMBER(peek(m, 0))
  THEN Fail(runtime_error(m, "Operand to negation must be a number."))
  ELSE push(pop(m), NUMBER_VAL(0 - AS_NUMBER(peek(m, 0))))

op_not(m) == push(pop(m), BOOL_VAL(is_falsey(peek(m, 0))))

(* BINARY_OP; the numbers of the sources checked are integers and their    *)
(* divisions are exact.                                                    *)
Arith(op, a, b) ==
  CASE op = OP_ADD -> NUMBER_VAL(a + b)
    [] op = OP_SUB -> NUMBER_VAL(a - b)
    [] op = OP_MUL -> NUMBER_VAL(a * b)
    [] op = OP_DIV -> NUMBER_VAL(a \div b)
    [] op = OP_GREATER -> BOOL_VAL(a > b)
    [] op = OP_LESS -> BOOL_VAL(a < b)

BINARY_OP(m, op) ==
  IF ~IS_NUMBER(peek(m, 0)) \/ ~IS_NUMBER(peek(m, 1))
  THEN Fail(runtime_error(m, "Operands must be numbers."))
  ELSE push(pop(pop(m)), Arith(op, AS_NUMBER(peek(m, 1)), AS_NUMBER(peek(m, 0))))

op_add(m) ==
  IF IS_STRING(m, peek(m, 0)) /\ IS_STRING(m, peek(m, 1)) THEN concatenate(m)
  ELSE IF IS_NUMBER(peek(m, 0)) /\ IS_NUMBER(peek(m, 1)) THEN BINARY_OP(m, OP_ADD)
  ELSE Fail(runtime_error(m, "Operands to '+' must be two strings or two numbers"))

op_equal(m) == push(pop(pop(m)), BOOL_VAL(values_equal(peek(m, 0), peek(m, 1))))

op_jump(m) == Skip(m, 2 + READ_SHORT(m))

op_jump_if_false(m) == IF is_falsey(peek(m, 0)) THEN Skip(m, 2 + READ_SHORT(m)) ELSE Skip(m, 2)

op_loop(m) == Skip(m, 2 - READ_SHORT(m))

op_call(m, clock) ==
  Reframe(call_value(Skip(m, 1), peek(m, Byte(m, 0)), Byte(m, 0), clock))

op_invoke(m, clock) ==
  Reframe(invoke(Skip(m, 2), READ_STRING(m, 0), Byte(m, 1), clock))

(* closure->upvalues[i] = the upvalue capture_upvalue returned *)
SetUpvalue(m, closure, i) == [m EXCEPT !.heap[closure].upvalues[i] = m.ret]

RECURSIVE FillUpvalues(_, _, _)
FillUpvalues(m, closure, i) ==
  IF i > m.heap[closure].upvalue_count THEN m
  ELSE FillUpvalues(
         IF Byte(m, 0) # 0
         THEN SetUpvalue(capture_upvalue(Skip(m, 2), Frame(m).slots + Byte(m, 1)), closure, i)
         ELSE [Skip(m, 2) EXCEPT !.heap[closure].upvalues[i] = FrameUpvalue(m, Byte(m, 1))],
         closure, i + 1)

(* OP_CLOSURE after new_closure: push the closure, then fill its upvalues *)
PushClosure(m) == FillUpvalues(push(m, OBJ_VAL(m.ret)), m.ret, 1)

op_closure(m) == PushClosure(new_closure(Skip(m, 1), AS_OBJ(READ_CONSTANT(m, 0))))

op_class(m) == PushRet(new_class(Skip(m, 1), READ_STRING(m, 0)))

op_get_super(m) ==
  Checked(bind_method(pop(Skip(m, 1)), AS_OBJ(peek(m, 0)), READ_STRING(m, 0)))

(* an OP_INVOKE_SUPER that looks the method up in the receiver's class *)
op_invoke_super_dynamic(m) ==
  Reframe(invoke_from_class(pop(Skip(m, 2)),
                            m.heap[AS_OBJ(peek(m, Byte(m, 1) + 1))].klass,
                            READ_STRING(m, 0), Byte(m, 1)))

op_invoke_super(m) ==
  Reframe(invoke_from_class(pop(Skip(m, 2)), AS_OBJ(peek(m, 0)), READ_STRING(m, 0), Byte(m, 1)))

(* an OP_INHERIT that copies no method *)
op_inherit_nothing(m) ==
  IF ~IS_CLASS(m, peek(m, 1))
  THEN Fail(runtime_error(m, "Superclass must be a class."))
  ELSE pop([m EXCEPT !.heap[AS_OBJ(peek(m, 0))].super = AS_OBJ(peek(m, 1))])

op_inherit(m) ==
  LET superclass == peek(m, 1)
      subclass == AS_OBJ(peek(m, 0))
      methods == m.heap[AS_OBJ(superclass)].methods
      m1 == table_add_all(m, methods.entries, Keys(methods), <<"methods", subclass>>)
  IN IF ~IS_CLASS(m, superclass)
     THEN Fail(runtime_error(m, "Superclass must be a class."))
     ELSE pop([m1 EXCEPT !.heap[subclass].super = AS_OBJ(superclass)])

op_method(m) == define_method(Skip(m, 1), READ_STRING(m, 0))

-----------------------------------------------------------------------------
(* The sources given to interpret.  A source is the sequence of calls its  *)
(* compilation makes, in order: init_compiler for a function, emit_byte    *)
(* (runs of bytes together), patch_jump, copy_string of a lexeme, a number *)
(* literal, make_constant of the value just produced, error_at,            *)
(* synchronize, arity++, add_upvalue, emit_return, end_compiler, and the   *)
(* end of compile.                                                         *)

Ev(kind) == [e |-> kind, s |-> <<>>, n |-> 0, t |-> ""]

Bytes(bytes) == [e |-> "bytes", s |-> bytes, n |-> 0, t |-> ""]

(* synchronize: parser.previous.type, parser.current.type and the types of *)
(* the tokens the lexer gives during the call                              *)
Sync(tokens) == [e |-> "sync", s |-> tokens, n |-> 0, t |-> ""]

Str(chars) == [e |-> "str", s |-> chars, n |-> 0, t |-> ""]

Num(value) == [e |-> "num", s |-> <<>>, n |-> value, t |-> ""]

Function(type, name) == [e |-> "init", s |-> name, n |-> 0, t |-> type]

Patch(offset, high, low) == [e |-> "patch", s |-> <<offset, high, low>>, n |-> 0, t |-> ""]

Upvalue(depth) == [e |-> "upvalue", s |-> <<>>, n |-> depth, t |-> ""]

(* var a = 1;
   var b = a + 2 * 3 - 4 / 2;
   { var c = -b; c = c + 1; a = c; }
   var i = 0;
   while (i < 2) { i = i + 1; }
   if (!(a > b) and true or false) { a = nil; } else { a = b == 5; }
   println(a); *)
Source_arith ==
  <<Str(<<<<"a", 1>>>>), Ev("const"), Num(1), Ev("const"), Bytes(<<4, 1, 5, 0>>),
    Str(<<<<"b", 1>>>>), Ev("const"), Str(<<<<"a", 1>>>>), Ev("const"), Bytes(<<6, 3>>),
    Num(2), Ev("const"), Bytes(<<4, 4>>), Num(3), Ev("const"), Bytes(<<4, 5, 19, 17>>), Num(4),
    Ev("const"), Bytes(<<4, 6>>), Num(2), Ev("const"), Bytes(<<4, 7, 20, 18, 5, 2>>),
    Ev("local"), Str(<<<<"b", 1>>>>), Ev("const"), Bytes(<<6, 8, 16, 8, 1>>), Num(1),
    Ev("const"), Bytes(<<4, 9, 17, 9, 1, 24>>), Str(<<<<"a", 1>>>>), Ev("const"),
    Bytes(<<8, 1, 7, 10, 24, 24>>), Ev("unlocal"), Str(<<<<"i", 1>>>>), Ev("const"), Num(0),
    Ev("const"), Bytes(<<4, 12, 5, 11>>), Str(<<<<"i", 1>>>>), Ev("const"), Bytes(<<6, 13>>),
    Num(2), Ev("const"), Bytes(<<4, 14, 22, 26, 255, 255, 24>>), Str(<<<<"i", 1>>>>),
    Ev("const"), Str(<<<<"i", 1>>>>), Ev("const"), Bytes(<<6, 16>>), Num(1), Ev("const"),
    Bytes(<<4, 17, 17, 7, 15, 24, 27, 0, 20>>), Patch(47, 0, 12), Bytes(<<24>>),
    Str(<<<<"a", 1>>>>), Ev("const"), Bytes(<<6, 18>>), Str(<<<<"b", 1>>>>), Ev("const"),
    Bytes(<<6, 19, 21, 15, 26, 255, 255, 24, 1>>), Patch(69, 0, 2),
    Bytes(<<26, 255, 255, 25, 255, 255>>), Patch(74, 0, 3), Bytes(<<24, 2>>), Patch(77, 0, 2),
    Bytes(<<26, 255, 255, 24>>), Str(<<<<"a", 1>>>>), Ev("const"),
    Bytes(<<3, 7, 20, 24, 25, 255, 255>>), Patch(82, 0, 8), Bytes(<<24>>), Str(<<<<"a", 1>>>>),
    Ev("const"), Str(<<<<"b", 1>>>>), Ev("const"), Bytes(<<6, 22>>), Num(5), Ev("const"),
    Bytes(<<4, 23, 23, 7, 21, 24>>), Patch(90, 0, 9),
    Str(<<<<"p", 1>>, <<"r", 1>>, <<"i", 1>>, <<"n", 1>>, <<"t", 1>>, <<"l", 1>>, <<"n", 1>>>>),
    Ev("const"), Bytes(<<6, 24>>), Str(<<<<"a", 1>>>>), Ev("const"),
    Bytes(<<6, 25, 28, 1, 24>>), Ev("end"), Ev("done")>>

(* var a = "x" + "y";
   var b = "xy";
   var r = a == b;
   "p" + "q";
   var c = "p" + "q";
   var d = "pq" == c;
   var e = a == c; *)
Source_strings ==
  <<Str(<<<<"a", 1>>>>), Ev("const"), Str(<<<<"x", 1>>>>), Ev("const"), Ev("const"),
    Bytes(<<4, 2>>), Str(<<<<"y", 1>>>>), Ev("const"), Ev("const"), Bytes(<<4, 4, 17, 5, 0>>),
    Str(<<<<"b", 1>>>>), Ev("const"), Str(<<<<"x", 1>>, <<"y", 1>>>>), Ev("const"),
    Ev("const"), Bytes(<<4, 7, 5, 5>>), Str(<<<<"r", 1>>>>), Ev("const"), Str(<<<<"a", 1>>>>),
    Ev("const"), Bytes(<<6, 9>>), Str(<<<<"b", 1>>>>), Ev("const"), Bytes(<<6, 10, 23, 5, 8>>),
    Str(<<<<"p", 1>>>>), Ev("const"), Ev("const"), Bytes(<<4, 12>>), Str(<<<<"q", 1>>>>),
    Ev("const"), Ev("const"), Bytes(<<4, 14, 17, 24>>), Str(<<<<"c", 1>>>>), Ev("const"),
    Str(<<<<"p", 1>>>>), Ev("const"), Ev("const"), Bytes(<<4, 17>>), Str(<<<<"q", 1>>>>),
    Ev("const"), Ev("const"), Bytes(<<4, 19, 17, 5, 15>>), Str(<<<<"d", 1>>>>), Ev("const"),
    Str(<<<<"p", 1>>, <<"q", 1>>>>), Ev("const"), Ev("const"), Bytes(<<4, 22>>),
    Str(<<<<"c", 1>>>>), Ev("const"), Bytes(<<6, 23, 23, 5, 20>>), Str(<<<<"e", 1>>>>),
    Ev("const"), Str(<<<<"a", 1>>>>), Ev("const"), Bytes(<<6, 25>>), Str(<<<<"c", 1>>>>),
    Ev("const"), Bytes(<<6, 26, 23, 5, 24>>), Ev("end"), Ev("done")>>

(* var get; var set; var r1; var r2; var r3; var r4; var r5;
   fun outer() {
     var x = 1;
     fun g() { return x; }
     fun s(v) { x = v; }
     get = g; set = s;
     s(2);
     r1 = g();
     x = 3;
     r2 = g();
     {
       var y = 10;
       fun h() { fun k() { return y + x; } return k; }
       r4 = h()();
     }
   }
   outer();
   set(5);
   r3 = get();
   outer();
   r5 = get(); *)
Source_closure ==
  <<Str(<<<<"g", 1>>, <<"e", 1>>, <<"t", 1>>>>), Ev("const"), Bytes(<<3, 5, 0>>),
    Str(<<<<"s", 1>>, <<"e", 1>>, <<"t", 1>>>>), Ev("const"), Bytes(<<3, 5, 1>>),
    Str(<<<<"r", 1>>, <<"1", 1>>>>), Ev("const"), Bytes(<<3, 5, 2>>),
    Str(<<<<"r", 1>>, <<"2", 1>>>>), Ev("const"), Bytes(<<3, 5, 3>>),
    Str(<<<<"r", 1>>, <<"3", 1>>>>), Ev("const"), Bytes(<<3, 5, 4>>),
    Str(<<<<"r", 1>>, <<"4", 1>>>>), Ev("const"), Bytes(<<3, 5, 5>>),
    Str(<<<<"r", 1>>, <<"5", 1>>>>), Ev("const"), Bytes(<<3, 5, 6>>),
    Str(<<<<"o", 1>>, <<"u", 1>>, <<"t", 1>>, <<"e", 1>>, <<"r", 1>>>>), Ev("const"),
    Function("TYPE_FUNCTION", <<<<"o", 1>>, <<"u", 1>>, <<"t", 1>>, <<"e", 1>>, <<"r", 1>>>>),
    Ev("local"), Num(1), Ev("const"), Bytes(<<4, 0>>), Ev("local"),
    Function("TYPE_FUNCTION", <<<<"g", 1>>>>), Upvalue(0), Bytes(<<10, 0, 0>>), Ev("end"),
    Ev("const"), Bytes(<<29, 1, 1, 1>>), Ev("local"),
    Function("TYPE_FUNCTION", <<<<"s", 1>>>>), Ev("arity"), Ev("local"), Upvalue(0),
    Bytes(<<8, 1, 11, 0, 24>>), Ev("end"), Ev("const"), Bytes(<<29, 2, 1, 1>>),
    Str(<<<<"g", 1>>, <<"e", 1>>, <<"t", 1>>>>), Ev("const"), Bytes(<<8, 2, 7, 3, 24>>),
    Str(<<<<"s", 1>>, <<"e", 1>>, <<"t", 1>>>>), Ev("const"), Bytes(<<8, 3, 7, 4, 24, 8, 3>>),
    Num(2), Ev("const"), Bytes(<<4, 5, 28, 1, 24>>), Str(<<<<"r", 1>>, <<"1", 1>>>>),
    Ev("const"), Bytes(<<8, 2, 28, 0, 7, 6, 24>>), Num(3), Ev("const"),
    Bytes(<<4, 7, 9, 1, 24>>), Str(<<<<"r", 1>>, <<"2", 1>>>>), Ev("const"),
    Bytes(<<8, 2, 28, 0, 7, 8, 24>>), Ev("local"), Num(10), Ev("const"), Bytes(<<4, 9>>),
    Ev("local"), Function("TYPE_FUNCTION", <<<<"h", 1>>>>), Ev("local"),
    Function("TYPE_FUNCTION", <<<<"k", 1>>>>), Upvalue(1), Upvalue(0), Bytes(<<10, 0>>),
    Upvalue(1), Upvalue(0), Bytes(<<10, 1, 17, 0>>), Ev("end"), Ev("const"),
    Bytes(<<29, 0, 0, 0, 0, 1, 8, 1, 0>>), Ev("end"), Ev("const"),
    Bytes(<<29, 10, 1, 4, 1, 1>>), Str(<<<<"r", 1>>, <<"4", 1>>>>), Ev("const"),
    Bytes(<<8, 5, 28, 0, 28, 0, 7, 11, 24, 24>>), Ev("unlocal"), Bytes(<<14>>), Ev("unlocal"),
    Ev("end"), Ev("const"), Bytes(<<29, 8, 5, 7>>),
    Str(<<<<"o", 1>>, <<"u", 1>>, <<"t", 1>>, <<"e", 1>>, <<"r", 1>>>>), Ev("const"),
    Bytes(<<6, 9, 28, 0, 24>>), Str(<<<<"s", 1>>, <<"e", 1>>, <<"t", 1>>>>), Ev("const"),
    Bytes(<<6, 10>>), Num(5), Ev("const"), Bytes(<<4, 11, 28, 1, 24>>),
    Str(<<<<"r", 1>>, <<"3", 1>>>>), Ev("const"), Str(<<<<"g", 1>>, <<"e", 1>>, <<"t", 1>>>>),
    Ev("const"), Bytes(<<6, 13, 28, 0, 7, 12, 24>>),
    Str(<<<<"o", 1>>, <<"u", 1>>, <<"t", 1>>, <<"e", 1>>, <<"r", 1>>>>), Ev("const"),
    Bytes(<<6, 14, 28, 0, 24>>), Str(<<<<"r", 1>>, <<"5", 1>>>>), Ev("const"),
    Str(<<<<"g", 1>>, <<"e", 1>>, <<"t", 1>>>>), Ev("const"),
    Bytes(<<6, 16, 28, 0, 7, 15, 24>>), Ev("end"), Ev("done")>>

(* class A { m() { return "A.m"; } n() { return this; } }
   class B < A {
     m() { return "B.m"; }
     t() { return super.m() + this.m(); }
     u() { var f = super.n; return f(); }
   }
   class C < B { m() { return "C.m"; } }
   var c = C();
   var r1 = c.t();
   var r2 = c.n() == c;
   var r3 = B().u();
   class P { init(a) { this.a = a; if (a) return; this.b = 1; } }
   var p = P(true);
   var q = P(false);
   var r4 = p.a;
   var r5 = q.b;
   var bm = c.m;
   var r6 = bm();
   c.f = println;
   c.f("x"); *)
Source_class ==
  <<Str(<<<<"A", 1>>>>), Ev("const"), Bytes(<<30, 0, 5, 0>>), Str(<<<<"A", 1>>>>), Ev("const"),
    Bytes(<<6, 1>>), Str(<<<<"m", 1>>>>), Ev("const"), Function("TYPE_METHOD", <<<<"m", 1>>>>),
    Str(<<<<"A", 1>>, <<".", 1>>, <<"m", 1>>>>), Ev("const"), Ev("const"), Bytes(<<4, 1, 0>>),
    Ev("end"), Ev("const"), Bytes(<<29, 3, 31, 2>>), Str(<<<<"n", 1>>>>), Ev("const"),
    Function("TYPE_METHOD", <<<<"n", 1>>>>), Bytes(<<8, 0, 0>>), Ev("end"), Ev("const"),
    Bytes(<<29, 5, 31, 4, 24>>), Str(<<<<"B", 1>>>>), Ev("const"), Bytes(<<30, 6, 5, 6>>),
    Str(<<<<"A", 1>>>>), Ev("const"), Bytes(<<6, 7>>), Ev("local"), Str(<<<<"B", 1>>>>),
    Ev("const"), Bytes(<<6, 8, 33>>), Str(<<<<"B", 1>>>>), Ev("const"), Bytes(<<6, 9>>),
    Str(<<<<"m", 1>>>>), Ev("const"), Function("TYPE_METHOD", <<<<"m", 1>>>>),
    Str(<<<<"B", 1>>, <<".", 1>>, <<"m", 1>>>>), Ev("const"), Ev("const"), Bytes(<<4, 1, 0>>),
    Ev("end"), Ev("const"), Bytes(<<29, 11, 31, 10>>), Str(<<<<"t", 1>>>>), Ev("const"),
    Function("TYPE_METHOD", <<<<"t", 1>>>>), Str(<<<<"m", 1>>>>), Ev("const"), Bytes(<<8, 0>>),
    Upvalue(0), Bytes(<<10, 0, 35, 0, 0, 8, 0>>), Str(<<<<"m", 1>>>>), Ev("const"),
    Bytes(<<32, 1, 0, 17, 0>>), Ev("end"), Ev("const"), Bytes(<<29, 13, 1, 1, 31, 12>>),
    Str(<<<<"u", 1>>>>), Ev("const"), Function("TYPE_METHOD", <<<<"u", 1>>>>), Ev("local"),
    Str(<<<<"n", 1>>>>), Ev("const"), Bytes(<<8, 0>>), Upvalue(0),
    Bytes(<<10, 0, 34, 0, 8, 1, 28, 0, 0>>), Ev("end"), Ev("const"),
    Bytes(<<29, 15, 1, 1, 31, 14, 24, 14>>), Ev("unlocal"), Str(<<<<"C", 1>>>>), Ev("const"),
    Bytes(<<30, 16, 5, 16>>), Str(<<<<"B", 1>>>>), Ev("const"), Bytes(<<6, 17>>), Ev("local"),
    Str(<<<<"C", 1>>>>), Ev("const"), Bytes(<<6, 18, 33>>), Str(<<<<"C", 1>>>>), Ev("const"),
    Bytes(<<6, 19>>), Str(<<<<"m", 1>>>>), Ev("const"),
    Function("TYPE_METHOD", <<<<"m", 1>>>>), Str(<<<<"C", 1>>, <<".", 1>>, <<"m", 1>>>>),
    Ev("const"), Ev("const"), Bytes(<<4, 1, 0>>), Ev("end"), Ev("const"),
    Bytes(<<29, 21, 31, 20, 24, 24>>), Ev("unlocal"), Str(<<<<"c", 1>>>>), Ev("const"),
    Str(<<<<"C", 1>>>>), Ev("const"), Bytes(<<6, 23, 28, 0, 5, 22>>),
    Str(<<<<"r", 1>>, <<"1", 1>>>>), Ev("const"), Str(<<<<"c", 1>>>>), Ev("const"),
    Bytes(<<6, 25>>), Str(<<<<"t", 1>>>>), Ev("const"), Bytes(<<32, 26, 0, 5, 24>>),
    Str(<<<<"r", 1>>, <<"2", 1>>>>), Ev("const"), Str(<<<<"c", 1>>>>), Ev("const"),
    Bytes(<<6, 28>>), Str(<<<<"n", 1>>>>), Ev("const"), Bytes(<<32, 29, 0>>),
    Str(<<<<"c", 1>>>>), Ev("const"), Bytes(<<6, 30, 23, 5, 27>>),
    Str(<<<<"r", 1>>, <<"3", 1>>>>), Ev("const"), Str(<<<<"B", 1>>>>), Ev("const"),
    Bytes(<<6, 32, 28, 0>>), Str(<<<<"u", 1>>>>), Ev("const"), Bytes(<<32, 33, 0, 5, 31>>),
    Str(<<<<"P", 1>>>>), Ev("const"), Bytes(<<30, 34, 5, 34>>), Str(<<<<"P", 1>>>>),
    Ev("const"), Bytes(<<6, 35>>), Str(<<<<"i", 1>>, <<"n", 1>>, <<"i", 1>>, <<"t", 1>>>>),
    Ev("const"),
    Function("TYPE_INITIALIZER", <<<<"i", 1>>, <<"n", 1>>, <<"i", 1>>, <<"t", 1>>>>),
    Ev("arity"), Ev("local"), Bytes(<<8, 0>>), Str(<<<<"a", 1>>>>), Ev("const"),
    Bytes(<<8, 1, 13, 0, 24, 8, 1, 26, 255, 255, 24>>), Ev("ret"), Bytes(<<25, 255, 255>>),
    Patch(10, 0, 7), Bytes(<<24>>), Patch(17, 0, 1), Bytes(<<8, 0>>), Str(<<<<"b", 1>>>>),
    Ev("const"), Num(1), Ev("const"), Bytes(<<4, 2, 13, 1, 24>>), Ev("end"), Ev("const"),
    Bytes(<<29, 37, 31, 36, 24>>), Str(<<<<"p", 1>>>>), Ev("const"), Str(<<<<"P", 1>>>>),
    Ev("const"), Bytes(<<6, 39, 1, 28, 1, 5, 38>>), Str(<<<<"q", 1>>>>), Ev("const"),
    Str(<<<<"P", 1>>>>), Ev("const"), Bytes(<<6, 41, 2, 28, 1, 5, 40>>),
    Str(<<<<"r", 1>>, <<"4", 1>>>>), Ev("const"), Str(<<<<"p", 1>>>>), Ev("const"),
    Bytes(<<6, 43>>), Str(<<<<"a", 1>>>>), Ev("const"), Bytes(<<12, 44, 5, 42>>),
    Str(<<<<"r", 1>>, <<"5", 1>>>>), Ev("const"), Str(<<<<"q", 1>>>>), Ev("const"),
    Bytes(<<6, 46>>), Str(<<<<"b", 1>>>>), Ev("const"), Bytes(<<12, 47, 5, 45>>),
    Str(<<<<"b", 1>>, <<"m", 1>>>>), Ev("const"), Str(<<<<"c", 1>>>>), Ev("const"),
    Bytes(<<6, 49>>), Str(<<<<"m", 1>>>>), Ev("const"), Bytes(<<12, 50, 5, 48>>),
    Str(<<<<"r", 1>>, <<"6", 1>>>>), Ev("const"), Str(<<<<"b", 1>>, <<"m", 1>>>>), Ev("const"),
    Bytes(<<6, 52, 28, 0, 5, 51>>), Str(<<<<"c", 1>>>>), Ev("const"), Bytes(<<6, 53>>),
    Str(<<<<"f", 1>>>>), Ev("const"),
    Str(<<<<"p", 1>>, <<"r", 1>>, <<"i", 1>>, <<"n", 1>>, <<"t", 1>>, <<"l", 1>>, <<"n", 1>>>>),
    Ev("const"), Bytes(<<6, 55, 13, 54, 24>>), Str(<<<<"c", 1>>>>), Ev("const"),
    Bytes(<<6, 56>>), Str(<<<<"f", 1>>>>), Ev("const"), Str(<<<<"x", 1>>>>), Ev("const"),
    Ev("const"), Bytes(<<4, 59, 32, 57, 1, 24>>), Ev("end"), Ev("done")>>

(* class Doughnut {
       cook() {
           println("Dunk in the fryer.");
           this.finish("sprinkles");
       }
       finish(ingredient) { println("Finish with " + ingredient + ".");}
   }
   class Cruller < Doughnut {
       finish(ingredient) {
           super.finish("icing");
       }
   }
   Cruller().cook();
   Doughnut().cook(); *)
Source_doughnut ==
  <<
    Str(<<<<"D", 1>>, <<"o", 1>>, <<"u", 1>>, <<"g", 1>>, <<"h", 1>>, <<"n", 1>>, <<"u", 1>>, <<"t", 1>>>>),
    Ev("const"), Bytes(<<30, 0, 5, 0>>),
    Str(<<<<"D", 1>>, <<"o", 1>>, <<"u", 1>>, <<"g", 1>>, <<"h", 1>>, <<"n", 1>>, <<"u", 1>>, <<"t", 1>>>>),
    Ev("const"), Bytes(<<6, 1>>), Str(<<<<"c", 1>>, <<"o", 2>>, <<"k", 1>>>>), Ev("const"),
    Function("TYPE_METHOD", <<<<"c", 1>>, <<"o", 2>>, <<"k", 1>>>>),
    Str(<<<<"p", 1>>, <<"r", 1>>, <<"i", 1>>, <<"n", 1>>, <<"t", 1>>, <<"l", 1>>, <<"n", 1>>>>),
    Ev("const"), Bytes(<<6, 0>>),
    Str(<<<<"D", 1>>, <<"u", 1>>, <<"n", 1>>, <<"k", 1>>, <<" ", 1>>, <<"i", 1>>, <<"n", 1>>, <<" ", 1>>, <<"t", 1>>, <<"h", 1>>, <<"e", 1>>, <<" ", 1>>, <<"f", 1>>, <<"r", 1>>, <<"y", 1>>, <<"e", 1>>, <<"r", 1>>, <<".", 1>>>>),
    Ev("const"), Ev("const"), Bytes(<<4, 2, 28, 1, 24, 8, 0>>),
    Str(<<<<"f", 1>>, <<"i", 1>>, <<"n", 1>>, <<"i", 1>>, <<"s", 1>>, <<"h", 1>>>>),
    Ev("const"),
    Str(<<<<"s", 1>>, <<"p", 1>>, <<"r", 1>>, <<"i", 1>>, <<"n", 1>>, <<"k", 1>>, <<"l", 1>>, <<"e", 1>>, <<"s", 1>>>>),
    Ev("const"), Ev("const"), Bytes(<<4, 5, 32, 3, 1, 24>>), Ev("end"), Ev("const"),
    Bytes(<<29, 3, 31, 2>>),
    Str(<<<<"f", 1>>, <<"i", 1>>, <<"n", 1>>, <<"i", 1>>, <<"s", 1>>, <<"h", 1>>>>),
    Ev("const"),
    Function("TYPE_METHOD", <<<<"f", 1>>, <<"i", 1>>, <<"n", 1>>, <<"i", 1>>, <<"s", 1>>, <<"h", 1>>>>),
    Ev("arity"), Ev("local"),
    Str(<<<<"p", 1>>, <<"r", 1>>, <<"i", 1>>, <<"n", 1>>, <<"t", 1>>, <<"l", 1>>, <<"n", 1>>>>),
    Ev("const"), Bytes(<<6, 0>>),
    Str(<<<<"F", 1>>, <<"i", 1>>, <<"n", 1>>, <<"i", 1>>, <<"s", 1>>, <<"h", 1>>, <<" ", 1>>, <<"w", 1>>, <<"i", 1>>, <<"t", 1>>, <<"h", 1>>, <<" ", 1>>>>),
    Ev("const"), Ev("const"), Bytes(<<4, 2, 8, 1, 17>>), Str(<<<<".", 1>>>>), Ev("const"),
    Ev("const"), Bytes(<<4, 4, 17, 28, 1, 24>>), Ev("end"), Ev("const"),
    Bytes(<<29, 5, 31, 4, 24>>),
    Str(<<<<"C", 1>>, <<"r", 1>>, <<"u", 1>>, <<"l", 2>>, <<"e", 1>>, <<"r", 1>>>>),
    Ev("const"), Bytes(<<30, 6, 5, 6>>),
    Str(<<<<"D", 1>>, <<"o", 1>>, <<"u", 1>>, <<"g", 1>>, <<"h", 1>>, <<"n", 1>>, <<"u", 1>>, <<"t", 1>>>>),
    Ev("const"), Bytes(<<6, 7>>), Ev("local"),
    Str(<<<<"C", 1>>, <<"r", 1>>, <<"u", 1>>, <<"l", 2>>, <<"e", 1>>, <<"r", 1>>>>),
    Ev("const"), Bytes(<<6, 8, 33>>),
    Str(<<<<"C", 1>>, <<"r", 1>>, <<"u", 1>>, <<"l", 2>>, <<"e", 1>>, <<"r", 1>>>>),
    Ev("const"), Bytes(<<6, 9>>),
    Str(<<<<"f", 1>>, <<"i", 1>>, <<"n", 1>>, <<"i", 1>>, <<"s", 1>>, <<"h", 1>>>>),
    Ev("const"),
    Function("TYPE_METHOD", <<<<"f", 1>>, <<"i", 1>>, <<"n", 1>>, <<"i", 1>>, <<"s", 1>>, <<"h", 1>>>>),
    Ev("arity"), Ev("local"),
    Str(<<<<"f", 1>>, <<"i", 1>>, <<"n", 1>>, <<"i", 1>>, <<"s", 1>>, <<"h", 1>>>>),
    Ev("const"), Bytes(<<8, 0>>),
    Str(<<<<"i", 1>>, <<"c", 1>>, <<"i", 1>>, <<"n", 1>>, <<"g", 1>>>>), Ev("const"),
    Ev("const"), Bytes(<<4, 2>>), Upvalue(0), Bytes(<<10, 0, 35, 0, 1, 24>>), Ev("end"),
    Ev("const"), Bytes(<<29, 11, 1, 1, 31, 10, 24, 14>>), Ev("unlocal"),
    Str(<<<<"C", 1>>, <<"r", 1>>, <<"u", 1>>, <<"l", 2>>, <<"e", 1>>, <<"r", 1>>>>),
    Ev("const"), Bytes(<<6, 12, 28, 0>>), Str(<<<<"c", 1>>, <<"o", 2>>, <<"k", 1>>>>),
    Ev("const"), Bytes(<<32, 13, 0, 24>>),
    Str(<<<<"D", 1>>, <<"o", 1>>, <<"u", 1>>, <<"g", 1>>, <<"h", 1>>, <<"n", 1>>, <<"u", 1>>, <<"t", 1>>>>),
    Ev("const"), Bytes(<<6, 14, 28, 0>>), Str(<<<<"c", 1>>, <<"o", 2>>, <<"k", 1>>>>),
    Ev("const"), Bytes(<<32, 15, 0, 24>>), Ev("end"), Ev("done")>>

(* class A {} var a = A(); A(1); var after = 1; *)
Source_noinit_args ==
  <<Str(<<<<"A", 1>>>>), Ev("const"), Bytes(<<30, 0, 5, 0>>), Str(<<<<"A", 1>>>>), Ev("const"),
    Bytes(<<6, 1, 24>>), Str(<<<<"a", 1>>>>), Ev("const"), Str(<<<<"A", 1>>>>), Ev("const"),
    Bytes(<<6, 3, 28, 0, 5, 2>>), Str(<<<<"A", 1>>>>), Ev("const"), Bytes(<<6, 4>>), Num(1),
    Ev("const"), Bytes(<<4, 5, 28, 1, 24>>),
    Str(<<<<"a", 1>>, <<"f", 1>>, <<"t", 1>>, <<"e", 1>>, <<"r", 1>>>>), Ev("const"), Num(1),
    Ev("const"), Bytes(<<4, 7, 5, 6>>), Ev("end"), Ev("done")>>

(* var x = 1; y; *)
Source_undefined_get ==
  <<Str(<<<<"x", 1>>>>), Ev("const"), Num(1), Ev("const"), Bytes(<<4, 1, 5, 0>>),
    Str(<<<<"y", 1>>>>), Ev("const"), Bytes(<<6, 2, 24>>), Ev("end"), Ev("done")>>

(* var x = 1; y = 2; *)
Source_undefined_set ==
  <<Str(<<<<"x", 1>>>>), Ev("const"), Num(1), Ev("const"), Bytes(<<4, 1, 5, 0>>),
    Str(<<<<"y", 1>>>>), Ev("const"), Num(2), Ev("const"), Bytes(<<4, 3, 7, 2, 24>>),
    Ev("end"), Ev("done")>>

(* fun f(a) { return a; } f(1); f(); *)
Source_arity ==
  <<Str(<<<<"f", 1>>>>), Ev("const"), Function("TYPE_FUNCTION", <<<<"f", 1>>>>), Ev("arity"),
    Ev("local"), Bytes(<<8, 1, 0>>), Ev("end"), Ev("const"), Bytes(<<29, 1, 5, 0>>),
    Str(<<<<"f", 1>>>>), Ev("const"), Bytes(<<6, 2>>), Num(1), Ev("const"),
    Bytes(<<4, 3, 28, 1, 24>>), Str(<<<<"f", 1>>>>), Ev("const"), Bytes(<<6, 4, 28, 0, 24>>),
    Ev("end"), Ev("done")>>

(* var x = 1; x(); *)
Source_not_callable ==
  <<Str(<<<<"x", 1>>>>), Ev("const"), Num(1), Ev("const"), Bytes(<<4, 1, 5, 0>>),
    Str(<<<<"x", 1>>>>), Ev("const"), Bytes(<<6, 2, 28, 0, 24>>), Ev("end"), Ev("done")>>

(* var x = 1; x.m(); *)
Source_invoke_number ==
  <<Str(<<<<"x", 1>>>>), Ev("const"), Num(1), Ev("const"), Bytes(<<4, 1, 5, 0>>),
    Str(<<<<"x", 1>>>>), Ev("const"), Bytes(<<6, 2>>), Str(<<<<"m", 1>>>>), Ev("const"),
    Bytes(<<32, 3, 0, 24>>), Ev("end"), Ev("done")>>

(* class A {} var a = A(); a.f = 1; a.g; *)
Source_undefined_property ==
  <<Str(<<<<"A", 1>>>>), Ev("const"), Bytes(<<30, 0, 5, 0>>), Str(<<<<"A", 1>>>>), Ev("const"),
    Bytes(<<6, 1, 24>>), Str(<<<<"a", 1>>>>), Ev("const"), Str(<<<<"A", 1>>>>), Ev("const"),
    Bytes(<<6, 3, 28, 0, 5, 2>>), Str(<<<<"a", 1>>>>), Ev("const"), Bytes(<<6, 4>>),
    Str(<<<<"f", 1>>>>), Ev("const"), Num(1), Ev("const"), Bytes(<<4, 6, 13, 5, 24>>),
    Str(<<<<"a", 1>>>>), Ev("const"), Bytes(<<6, 7>>), Str(<<<<"g", 1>>>>), Ev("const"),
    Bytes(<<12, 8, 24>>), Ev("end"), Ev("done")>>

(* var x = "s" + 1; *)
Source_add_mixed ==
  <<Str(<<<<"x", 1>>>>), Ev("const"), Str(<<<<"s", 1>>>>), Ev("const"), Ev("const"),
    Bytes(<<4, 2>>), Num(1), Ev("const"), Bytes(<<4, 3, 17, 5, 0>>), Ev("end"), Ev("done")>>

(* var x = 1 < nil; *)
Source_less_nil ==
  <<Str(<<<<"x", 1>>>>), Ev("const"), Num(1), Ev("const"), Bytes(<<4, 1, 3, 22, 5, 0>>),
    Ev("end"), Ev("done")>>

(* class P { init(a) { this.a = a; } } var p = P(1); P(); *)
Source_init_arity ==
  <<Str(<<<<"P", 1>>>>), Ev("const"), Bytes(<<30, 0, 5, 0>>), Str(<<<<"P", 1>>>>), Ev("const"),
    Bytes(<<6, 1>>), Str(<<<<"i", 1>>, <<"n", 1>>, <<"i", 1>>, <<"t", 1>>>>), Ev("const"),
    Function("TYPE_INITIALIZER", <<<<"i", 1>>, <<"n", 1>>, <<"i", 1>>, <<"t", 1>>>>),
    Ev("arity"), Ev("local"), Bytes(<<8, 0>>), Str(<<<<"a", 1>>>>), Ev("const"),
    Bytes(<<8, 1, 13, 0, 24>>), Ev("end"), Ev("const"), Bytes(<<29, 3, 31, 2, 24>>),
    Str(<<<<"p", 1>>>>), Ev("const"), Str(<<<<"P", 1>>>>), Ev("const"), Bytes(<<6, 5>>),
    Num(1), Ev("const"), Bytes(<<4, 6, 28, 1, 5, 4>>), Str(<<<<"P", 1>>>>), Ev("const"),
    Bytes(<<6, 7, 28, 0, 24>>), Ev("end"), Ev("done")>>

(* var S = 1; class B < S {} *)
Source_superclass ==
  <<Str(<<<<"S", 1>>>>), Ev("const"), Num(1), Ev("const"), Bytes(<<4, 1, 5, 0>>),
    Str(<<<<"B", 1>>>>), Ev("const"), Bytes(<<30, 2, 5, 2>>), Str(<<<<"S", 1>>>>), Ev("const"),
    Bytes(<<6, 3>>), Ev("local"), Str(<<<<"B", 1>>>>), Ev("const"), Bytes(<<6, 4, 33>>),
    Str(<<<<"B", 1>>>>), Ev("const"), Bytes(<<6, 5, 24, 24>>), Ev("unlocal"), Ev("end"),
    Ev("done")>>

(* class A {} A().m(); *)
Source_undefined_method ==
  <<Str(<<<<"A", 1>>>>), Ev("const"), Bytes(<<30, 0, 5, 0>>), Str(<<<<"A", 1>>>>), Ev("const"),
    Bytes(<<6, 1, 24>>), Str(<<<<"A", 1>>>>), Ev("const"), Bytes(<<6, 2, 28, 0>>),
    Str(<<<<"m", 1>>>>), Ev("const"), Bytes(<<32, 3, 0, 24>>), Ev("end"), Ev("done")>>

(* var x = 1; x.f; *)
Source_get_property_number ==
  <<Str(<<<<"x", 1>>>>), Ev("const"), Num(1), Ev("const"), Bytes(<<4, 1, 5, 0>>),
    Str(<<<<"x", 1>>>>), Ev("const"), Bytes(<<6, 2>>), Str(<<<<"f", 1>>>>), Ev("const"),
    Bytes(<<12, 3, 24>>), Ev("end"), Ev("done")>>

(* var x = 1; x.f = 2; *)
Source_set_property_number ==
  <<Str(<<<<"x", 1>>>>), Ev("const"), Num(1), Ev("const"), Bytes(<<4, 1, 5, 0>>),
    Str(<<<<"x", 1>>>>), Ev("const"), Bytes(<<6, 2>>), Str(<<<<"f", 1>>>>), Ev("const"),
    Num(2), Ev("const"), Bytes(<<4, 4, 13, 3, 24>>), Ev("end"), Ev("done")>>

(* var x = -nil; *)
Source_negate_nil ==
  <<Str(<<<<"x", 1>>>>), Ev("const"), Bytes(<<3, 16, 5, 0>>), Ev("end"), Ev("done")>>

(* class A { m() {} } class B < A { t() { return super.z; } u() { super.z(); } } B().t(); *)
Source_super_missing ==
  <<Str(<<<<"A", 1>>>>), Ev("const"), Bytes(<<30, 0, 5, 0>>), Str(<<<<"A", 1>>>>), Ev("const"),
    Bytes(<<6, 1>>), Str(<<<<"m", 1>>>>), Ev("const"), Function("TYPE_METHOD", <<<<"m", 1>>>>),
    Ev("end"), Ev("const"), Bytes(<<29, 3, 31, 2, 24>>), Str(<<<<"B", 1>>>>), Ev("const"),
    Bytes(<<30, 4, 5, 4>>), Str(<<<<"A", 1>>>>), Ev("const"), Bytes(<<6, 5>>), Ev("local"),
    Str(<<<<"B", 1>>>>), Ev("const"), Bytes(<<6, 6, 33>>), Str(<<<<"B", 1>>>>), Ev("const"),
    Bytes(<<6, 7>>), Str(<<<<"t", 1>>>>), Ev("const"), Function("TYPE_METHOD", <<<<"t", 1>>>>),
    Str(<<<<"z", 1>>>>), Ev("const"), Bytes(<<8, 0>>), Upvalue(0), Bytes(<<10, 0, 34, 0, 0>>),
    Ev("end"), Ev("const"), Bytes(<<29, 9, 1, 1, 31, 8>>), Str(<<<<"u", 1>>>>), Ev("const"),
    Function("TYPE_METHOD", <<<<"u", 1>>>>), Str(<<<<"z", 1>>>>), Ev("const"), Bytes(<<8, 0>>),
    Upvalue(0), Bytes(<<10, 0, 35, 0, 0, 24>>), Ev("end"), Ev("const"),
    Bytes(<<29, 11, 1, 1, 31, 10, 24, 14>>), Ev("unlocal"), Str(<<<<"B", 1>>>>), Ev("const"),
    Bytes(<<6, 12, 28, 0>>), Str(<<<<"t", 1>>>>), Ev("const"), Bytes(<<32, 13, 0, 24>>),
    Ev("end"), Ev("done")>>

(* class A { m() {} } class B < A { u() { super.z(); } } B().u(); *)
Source_invoke_super_missing ==
  <<Str(<<<<"A", 1>>>>), Ev("const"), Bytes(<<30, 0, 5, 0>>), Str(<<<<"A", 1>>>>), Ev("const"),
    Bytes(<<6, 1>>), Str(<<<<"m", 1>>>>), Ev("const"), Function("TYPE_METHOD", <<<<"m", 1>>>>),
    Ev("end"), Ev("const"), Bytes(<<29, 3, 31, 2, 24>>), Str(<<<<"B", 1>>>>), Ev("const"),
    Bytes(<<30, 4, 5, 4>>), Str(<<<<"A", 1>>>>), Ev("const"), Bytes(<<6, 5>>), Ev("local"),
    Str(<<<<"B", 1>>>>), Ev("const"), Bytes(<<6, 6, 33>>), Str(<<<<"B", 1>>>>), Ev("const"),
    Bytes(<<6, 7>>), Str(<<<<"u", 1>>>>), Ev("const"), Function("TYPE_METHOD", <<<<"u", 1>>>>),
    Str(<<<<"z", 1>>>>), Ev("const"), Bytes(<<8, 0>>), Upvalue(0),
    Bytes(<<10, 0, 35, 0, 0, 24>>), Ev("end"), Ev("const"),
    Bytes(<<29, 9, 1, 1, 31, 8, 24, 14>>), Ev("unlocal"), Str(<<<<"B", 1>>>>), Ev("const"),
    Bytes(<<6, 10, 28, 0>>), Str(<<<<"u", 1>>>>), Ev("const"), Bytes(<<32, 11, 0, 24>>),
    Ev("end"), Ev("done")>>

(* fun f() { f(); } f(); *)
Source_overflow ==
  <<Str(<<<<"f", 1>>>>), Ev("const"), Function("TYPE_FUNCTION", <<<<"f", 1>>>>),
    Str(<<<<"f", 1>>>>), Ev("const"), Bytes(<<6, 0, 28, 0, 24>>), Ev("end"), Ev("const"),
    Bytes(<<29, 1, 5, 0>>), Str(<<<<"f", 1>>>>), Ev("const"), Bytes(<<6, 2, 28, 0, 24>>),
    Ev("end"), Ev("done")>>

(* fun f(n) { if (n == 63) { clock(); f(); } f(n + 1); } f(1); *)
Source_depth64 ==
  <<Str(<<<<"f", 1>>>>), Ev("const"), Function("TYPE_FUNCTION", <<<<"f", 1>>>>), Ev("arity"),
    Ev("local"), Bytes(<<8, 1>>), Num(63), Ev("const"), Bytes(<<4, 0, 23, 26, 255, 255, 24>>),
    Str(<<<<"c", 1>>, <<"l", 1>>, <<"o", 1>>, <<"c", 1>>, <<"k", 1>>>>), Ev("const"),
    Bytes(<<6, 1, 28, 0, 24>>), Str(<<<<"f", 1>>>>), Ev("const"),
    Bytes(<<6, 2, 28, 0, 24, 25, 255, 255>>), Patch(6, 0, 14), Bytes(<<24>>), Patch(20, 0, 1),
    Str(<<<<"f", 1>>>>), Ev("const"), Bytes(<<6, 3, 8, 1>>), Num(1), Ev("const"),
    Bytes(<<4, 4, 17, 28, 1, 24>>), Ev("end"), Ev("const"), Bytes(<<29, 1, 5, 0>>),
    Str(<<<<"f", 1>>>>), Ev("const"), Bytes(<<6, 2>>), Num(1), Ev("const"),
    Bytes(<<4, 3, 28, 1, 24>>), Ev("end"), Ev("done")>>

(* var a = 1;
   var = 2;
   a = ;
   fun g() { return 1 }
   var ok = 3; *)
Source_compile_error ==
  <<Str(<<<<"a", 1>>>>), Ev("const"), Num(1), Ev("const"), Bytes(<<4, 1, 5, 0>>), Ev("error"),
    Str(<<<<"v", 1>>, <<"a", 1>>, <<"r", 1>>>>), Ev("const"), Num(2), Ev("const"),
    Bytes(<<4, 3, 5, 2>>), Sync(<<"TOKEN_SEMICOLON", "TOKEN_IDENTIFIER">>),
    Str(<<<<"a", 1>>>>), Ev("const"), Ev("error"), Bytes(<<7, 4>>), Ev("error"), Bytes(<<24>>),
    Sync(<<"TOKEN_SEMICOLON", "TOKEN_FUN">>), Str(<<<<"g", 1>>>>), Ev("const"),
    Function("TYPE_FUNCTION", <<<<"g", 1>>>>), Num(1), Ev("const"), Bytes(<<4, 0>>),
    Ev("error"), Bytes(<<0>>), Sync(<<"TOKEN_INT", "TOKEN_RIGHT_BRACE", "TOKEN_VAR">>),
    Ev("local"), Num(3), Ev("const"), Bytes(<<4, 1>>), Ev("error"), Ev("end"), Ev("const"),
    Bytes(<<29, 6, 5, 5>>), Sync(<<"TOKEN_SEMICOLON", "TOKEN_EOF">>), Ev("end"), Ev("done")>>

(* class Q { init() { return 1; } } *)
Source_init_return_value ==
  <<Str(<<<<"Q", 1>>>>), Ev("const"), Bytes(<<30, 0, 5, 0>>), Str(<<<<"Q", 1>>>>), Ev("const"),
    Bytes(<<6, 1>>), Str(<<<<"i", 1>>, <<"n", 1>>, <<"i", 1>>, <<"t", 1>>>>), Ev("const"),
    Function("TYPE_INITIALIZER", <<<<"i", 1>>, <<"n", 1>>, <<"i", 1>>, <<"t", 1>>>>),
    Ev("error"), Num(1), Ev("const"), Bytes(<<4, 0, 0>>),
    Sync(<<"TOKEN_SEMICOLON", "TOKEN_RIGHT_BRACE">>), Ev("end"), Ev("const"),
    Bytes(<<29, 3, 31, 2, 24>>), Ev("end"), Ev("done")>>

(* var s = "aaaaaaaaaaaaaaaa";
   var i = 0;
   while (i < 17) { "x" + "y"; s = s + s; i = i + 1; } *)
Source_heavy ==
  <<Str(<<<<"s", 1>>>>), Ev("const"), Str(<<<<"a", 16>>>>), Ev("const"), Ev("const"),
    Bytes(<<4, 2, 5, 0>>), Str(<<<<"i", 1>>>>), Ev("const"), Num(0), Ev("const"),
    Bytes(<<4, 4, 5, 3>>), Str(<<<<"i", 1>>>>), Ev("const"), Bytes(<<6, 5>>), Num(17),
    Ev("const"), Bytes(<<4, 6, 22, 26, 255, 255, 24>>), Str(<<<<"x", 1>>>>), Ev("const"),
    Ev("const"), Bytes(<<4, 8>>), Str(<<<<"y", 1>>>>), Ev("const"), Ev("const"),
    Bytes(<<4, 10, 17, 24>>), Str(<<<<"s", 1>>>>), Ev("const"), Str(<<<<"s", 1>>>>),
    Ev("const"), Bytes(<<6, 12>>), Str(<<<<"s", 1>>>>), Ev("const"),
    Bytes(<<6, 13, 17, 7, 11, 24>>), Str(<<<<"i", 1>>>>), Ev("const"), Str(<<<<"i", 1>>>>),
    Ev("const"), Bytes(<<6, 15>>), Num(1), Ev("const"),
    Bytes(<<4, 16, 17, 7, 14, 24, 27, 0, 34>>), Patch(14, 0, 26), Bytes(<<24>>), Ev("end"),
    Ev("done")>>

(* var z = 1; z = z + 1; println(z); *)
Source_again ==
  <<Str(<<<<"z", 1>>>>), Ev("const"), Num(1), Ev("const"), Bytes(<<4, 1, 5, 0>>),
    Str(<<<<"z", 1>>>>), Ev("const"), Str(<<<<"z", 1>>>>), Ev("const"), Bytes(<<6, 3>>),
    Num(1), Ev("const"), Bytes(<<4, 4, 17, 7, 2, 24>>),
    Str(<<<<"p", 1>>, <<"r", 1>>, <<"i", 1>>, <<"n", 1>>, <<"t", 1>>, <<"l", 1>>, <<"n", 1>>>>),
    Ev("const"), Bytes(<<6, 5>>), Str(<<<<"z", 1>>>>), Ev("const"), Bytes(<<6, 6, 28, 1, 24>>),
    Ev("end"), Ev("done")>>

(* var w = "x" + "y"; clock; *)
Source_again_strings ==
  <<Str(<<<<"w", 1>>>>), Ev("const"), Str(<<<<"x", 1>>>>), Ev("const"), Ev("const"),
    Bytes(<<4, 2>>), Str(<<<<"y", 1>>>>), Ev("const"), Ev("const"), Bytes(<<4, 4, 17, 5, 0>>),
    Str(<<<<"c", 1>>, <<"l", 1>>, <<"o", 1>>, <<"c", 1>>, <<"k", 1>>>>), Ev("const"),
    Bytes(<<6, 5, 24>>), Ev("end"), Ev("done")>>

(* fun double(x) {return x * 2;}
   var kept = "ke" + "pt"; *)
Source_session_define ==
  <<Str(<<<<"d", 1>>, <<"o", 1>>, <<"u", 1>>, <<"b", 1>>, <<"l", 1>>, <<"e", 1>>>>),
    Ev("const"),
    Function("TYPE_FUNCTION", <<<<"d", 1>>, <<"o", 1>>, <<"u", 1>>, <<"b", 1>>, <<"l", 1>>, <<"e", 1>>>>),
    Ev("arity"), Ev("local"), Bytes(<<8, 1>>), Num(2), Ev("const"), Bytes(<<4, 0, 19, 0>>),
    Ev("end"), Ev("const"), Bytes(<<29, 1, 5, 0>>),
    Str(<<<<"k", 1>>, <<"e", 1>>, <<"p", 1>>, <<"t", 1>>>>), Ev("const"),
    Str(<<<<"k", 1>>, <<"e", 1>>>>), Ev("const"), Ev("const"), Bytes(<<4, 4>>),
    Str(<<<<"p", 1>>, <<"t", 1>>>>), Ev("const"), Ev("const"), Bytes(<<4, 6, 17, 5, 2>>),
    Ev("end"), Ev("done")>>

(* var got = double(2);
   var same = kept == "kept"; *)
Source_session_use ==
  <<Str(<<<<"g", 1>>, <<"o", 1>>, <<"t", 1>>>>), Ev("const"),
    Str(<<<<"d", 1>>, <<"o", 1>>, <<"u", 1>>, <<"b", 1>>, <<"l", 1>>, <<"e", 1>>>>),
    Ev("const"), Bytes(<<6, 1>>), Num(2), Ev("const"), Bytes(<<4, 2, 28, 1, 5, 0>>),
    Str(<<<<"s", 1>>, <<"a", 1>>, <<"m", 1>>, <<"e", 1>>>>), Ev("const"),
    Str(<<<<"k", 1>>, <<"e", 1>>, <<"p", 1>>, <<"t", 1>>>>), Ev("const"), Bytes(<<6, 4>>),
    Str(<<<<"k", 1>>, <<"e", 1>>, <<"p", 1>>, <<"t", 1>>>>), Ev("const"), Ev("const"),
    Bytes(<<4, 6, 23, 5, 3>>), Ev("end"), Ev("done")>>

(* var g;
   fun outer() { var x = 1; fun inner() { return x; } g = inner; nothing; }
   outer(); *)
Source_open_error ==
  <<Str(<<<<"g", 1>>>>), Ev("const"), Bytes(<<3, 5, 0>>),
    Str(<<<<"o", 1>>, <<"u", 1>>, <<"t", 1>>, <<"e", 1>>, <<"r", 1>>>>), Ev("const"),
    Function("TYPE_FUNCTION", <<<<"o", 1>>, <<"u", 1>>, <<"t", 1>>, <<"e", 1>>, <<"r", 1>>>>),
    Ev("local"), Num(1), Ev("const"), Bytes(<<4, 0>>), Ev("local"),
    Function("TYPE_FUNCTION", <<<<"i", 1>>, <<"n", 2>>, <<"e", 1>>, <<"r", 1>>>>), Upvalue(0),
    Bytes(<<10, 0, 0>>), Ev("end"), Ev("const"), Bytes(<<29, 1, 1, 1>>), Str(<<<<"g", 1>>>>),
    Ev("const"), Bytes(<<8, 2, 7, 2, 24>>),
    Str(<<<<"n", 1>>, <<"o", 1>>, <<"t", 1>>, <<"h", 1>>, <<"i", 1>>, <<"n", 1>>, <<"g", 1>>>>),
    Ev("const"), Bytes(<<6, 3, 24>>), Ev("end"), Ev("const"), Bytes(<<29, 2, 5, 1>>),
    Str(<<<<"o", 1>>, <<"u", 1>>, <<"t", 1>>, <<"e", 1>>, <<"r", 1>>>>), Ev("const"),
    Bytes(<<6, 3, 28, 0, 24>>), Ev("end"), Ev("done")>>

(* var seen;
   { var p = 111; var q = 222; seen = g(); } *)
Source_call_kept ==
  <<Str(<<<<"s", 1>>, <<"e", 2>>, <<"n", 1>>>>), Ev("const"), Bytes(<<3, 5, 0>>), Ev("local"),
    Num(111), Ev("const"), Bytes(<<4, 1>>), Ev("local"), Num(222), Ev("const"),
    Bytes(<<4, 2>>), Str(<<<<"s", 1>>, <<"e", 2>>, <<"n", 1>>>>), Ev("const"),
    Str(<<<<"g", 1>>>>), Ev("const"), Bytes(<<6, 4, 28, 0, 7, 3, 24, 24>>), Ev("unlocal"),
    Bytes(<<24>>), Ev("unlocal"), Ev("end"), Ev("done")>>

(* fun f(p0, p1, ..., p253) { return 1; } *)
Source_params254 ==
  <<Str(<<<<"f", 1>>>>), Ev("const"), Function("TYPE_FUNCTION", <<<<"f", 1>>>>), Ev("arity"),
    Ev("local"), Ev("arity"), Ev("local"), Ev("arity"), Ev("local"), Ev("arity"), Ev("local"),
    Ev("arity"), Ev("local"), Ev("arity"), Ev("local"), Ev("arity"), Ev("local"), Ev("arity"),
    Ev("local"), Ev("arity"), Ev("local"), Ev("arity"), Ev("local"), Ev("arity"), Ev("local"),
    Ev("arity"), Ev("local"), Ev("arity"), Ev("local"), Ev("arity"), Ev("local"), Ev("arity"),
    Ev("local"), Ev("arity"), Ev("local"), Ev("arity"), Ev("local"), Ev("arity"), Ev("local"),
    Ev("arity"), Ev("local"), Ev("arity"), Ev("local"), Ev("arity"), Ev("local"), Ev("arity"),
    Ev("local"), Ev("arity"), Ev("local"), Ev("arity"), Ev("local"), Ev("arity"), Ev("local"),
    Ev("arity"), Ev("local"), Ev("arity"), Ev("local"), Ev("arity"), Ev("local"), Ev("arity"),
    Ev("local"), Ev("arity"), Ev("local"), Ev("arity"), Ev("local"), Ev("arity"), Ev("local"),
    Ev("arity"), Ev("local"), Ev("arity"), Ev("local"), Ev("arity"), Ev("local"), Ev("arity"),
    Ev("local"), Ev("arity"), Ev("local"), Ev("arity"), Ev("local"), Ev("arity"), Ev("local"),
    Ev("arity"), Ev("local"), Ev("arity"), Ev("local"), Ev("arity"), Ev("local"), Ev("arity"),
    Ev("local"), Ev("arity"), Ev("local"), Ev("arity"), Ev("local"), Ev("arity"), Ev("local"),
    Ev("arity"), Ev("local"), Ev("arity"), Ev("local"), Ev("arity"), Ev("local"), Ev("arity"),
    Ev("local"), Ev("arity"), Ev("local"), Ev("arity"), Ev("local"), Ev("arity"), Ev("local"),
    Ev("arity"), Ev("local"), Ev("arity"), Ev("local"), Ev("arity"), Ev("local"), Ev("arity"),
    Ev("local"), Ev("arity"), Ev("local"), Ev("arity"), Ev("local"), Ev("arity"), Ev("local"),
    Ev("arity"), Ev("local"), Ev("arity"), Ev("local"), Ev("arity"), Ev("local"), Ev("arity"),
    Ev("local"), Ev("arity"), Ev("local"), Ev("arity"), Ev("local"), Ev("arity"), Ev("local"),
    Ev("arity"), Ev("local"), Ev("arity"), Ev("local"), Ev("arity"), Ev("local"), Ev("arity"),
    Ev("local"), Ev("arity"), Ev("local"), Ev("arity"), Ev("local"), Ev("arity"), Ev("local"),
    Ev("arity"), Ev("local"), Ev("arity"), Ev("local"), Ev("arity"), Ev("local"), Ev("arity"),
    Ev("local"), Ev("arity"), Ev("local"), Ev("arity"), Ev("local"), Ev("arity"), Ev("local"),
    Ev("arity"), Ev("local"), Ev("arity"), Ev("local"), Ev("arity"), Ev("local"), Ev("arity"),
    Ev("local"), Ev("arity"), Ev("local"), Ev("arity"), Ev("local"), Ev("arity"), Ev("local"),
    Ev("arity"), Ev("local"), Ev("arity"), Ev("local"), Ev("arity"), Ev("local"), Ev("arity"),
    Ev("local"), Ev("arity"), Ev("local"), Ev("arity"), Ev("local"), Ev("arity"), Ev("local"),
    Ev("arity"), Ev("local"), Ev("arity"), Ev("local"), Ev("arity"), Ev("local"), Ev("arity"),
    Ev("local"), Ev("arity"), Ev("local"), Ev("arity"), Ev("local"), Ev("arity"), Ev("local"),
    Ev("arity"), Ev("local"), Ev("arity"), Ev("local"), Ev("arity"), Ev("local"), Ev("arity"),
    Ev("local"), Ev("arity"), Ev("local"), Ev("arity"), Ev("local"), Ev("arity"), Ev("local"),
    Ev("arity"), Ev("local"), Ev("arity"), Ev("local"), Ev("arity"), Ev("local"), Ev("arity"),
    Ev("local"), Ev("arity"), Ev("local"), Ev("arity"), Ev("local"), Ev("arity"), Ev("local"),
    Ev("arity"), Ev("local"), Ev("arity"), Ev("local"), Ev("arity"), Ev("local"), Ev("arity"),
    Ev("local"), Ev("arity"), Ev("local"), Ev("arity"), Ev("local"), Ev("arity"), Ev("local"),
    Ev("arity"), Ev("local"), Ev("arity"), Ev("local"), Ev("arity"), Ev("local"), Ev("arity"),
    Ev("local"), Ev("arity"), Ev("local"), Ev("arity"), Ev("local"), Ev("arity"), Ev("local"),
    Ev("arity"), Ev("local"), Ev("arity"), Ev("local"), Ev("arity"), Ev("local"), Ev("arity"),
    Ev("local"), Ev("arity"), Ev("local"), Ev("arity"), Ev("local"), Ev("arity"), Ev("local"),
    Ev("arity"), Ev("local"), Ev("arity"), Ev("local"), Ev("arity"), Ev("local"), Ev("arity"),
    Ev("local"), Ev("arity"), Ev("local"), Ev("arity"), Ev("local"), Ev("arity"), Ev("local"),
    Ev("arity"), Ev("local"), Ev("arity"), Ev("local"), Ev("arity"), Ev("local"), Ev("arity"),
    Ev("local"), Ev("arity"), Ev("local"), Ev("arity"), Ev("local"), Ev("arity"), Ev("local"),
    Ev("arity"), Ev("local"), Ev("arity"), Ev("local"), Ev("arity"), Ev("local"), Ev("arity"),
    Ev("local"), Ev("arity"), Ev("local"), Ev("arity"), Ev("local"), Ev("arity"), Ev("local"),
    Ev("arity"), Ev("local"), Ev("arity"), Ev("local"), Ev("arity"), Ev("local"), Ev("arity"),
    Ev("local"), Ev("arity"), Ev("local"), Ev("arity"), Ev("local"), Ev("arity"), Ev("local"),
    Ev("arity"), Ev("local"), Ev("arity"), Ev("local"), Ev("arity"), Ev("local"), Ev("arity"),
    Ev("local"), Ev("arity"), Ev("local"), Ev("arity"), Ev("local"), Ev("arity"), Ev("local"),
    Ev("arity"), Ev("local"), Ev("arity"), Ev("local"), Ev("arity"), Ev("local"), Ev("arity"),
    Ev("local"), Ev("arity"), Ev("local"), Ev("arity"), Ev("local"), Ev("arity"), Ev("local"),
    Ev("arity"), Ev("local"), Ev("arity"), Ev("local"), Ev("arity"), Ev("local"), Ev("arity"),
    Ev("local"), Ev("arity"), Ev("local"), Ev("arity"), Ev("local"), Ev("arity"), Ev("local"),
    Ev("arity"), Ev("local"), Ev("arity"), Ev("local"), Ev("arity"), Ev("local"), Ev("arity"),
    Ev("local"), Ev("arity"), Ev("local"), Ev("arity"), Ev("local"), Ev("arity"), Ev("local"),
    Ev("arity"), Ev("local"), Ev("arity"), Ev("local"), Ev("arity"), Ev("local"), Ev("arity"),
    Ev("local"), Ev("arity"), Ev("local"), Ev("arity"), Ev("local"), Ev("arity"), Ev("local"),
    Ev("arity"), Ev("local"), Ev("arity"), Ev("local"), Ev("arity"), Ev("local"), Ev("arity"),
    Ev("local"), Ev("arity"), Ev("local"), Ev("arity"), Ev("local"), Ev("arity"), Ev("local"),
    Ev("arity"), Ev("local"), Ev("arity"), Ev("local"), Ev("arity"), Ev("local"), Ev("arity"),
    Ev("local"), Ev("arity"), Ev("local"), Ev("arity"), Ev("local"), Ev("arity"), Ev("local"),
    Ev("arity"), Ev("local"), Ev("arity"), Ev("local"), Ev("arity"), Ev("local"), Ev("arity"),
    Ev("local"), Ev("arity"), Ev("local"), Ev("arity"), Ev("local"), Ev("arity"), Ev("local"),
    Ev("arity"), Ev("local"), Ev("arity"), Ev("local"), Ev("arity"), Ev("local"), Ev("arity"),
    Ev("local"), Ev("arity"), Ev("local"), Ev("arity"), Ev("local"), Ev("arity"), Ev("local"),
    Ev("arity"), Ev("local"), Ev("arity"), Ev("local"), Ev("arity"), Ev("local"), Ev("arity"),
    Ev("local"), Ev("arity"), Ev("local"), Ev("arity"), Ev("local"), Ev("arity"), Ev("local"),
    Ev("arity"), Ev("local"), Ev("arity"), Ev("local"), Ev("arity"), Ev("local"), Ev("arity"),
    Ev("local"), Ev("arity"), Ev("local"), Ev("arity"), Ev("local"), Ev("arity"), Ev("local"),
    Ev("arity"), Ev("local"), Ev("arity"), Ev("local"), Ev("arity"), Ev("local"), Ev("arity"),
    Ev("local"), Ev("arity"), Ev("local"), Ev("arity"), Ev("local"), Ev("arity"), Ev("local"),
    Ev("arity"), Ev("local"), Ev("arity"), Ev("local"), Ev("arity"), Ev("local"), Ev("arity"),
    Ev("local"), Ev("arity"), Ev("local"), Num(1), Ev("const"), Bytes(<<4, 0, 0>>), Ev("end"),
    Ev("const"), Bytes(<<29, 1, 5, 0>>), Ev("end"), Ev("done")>>

(* fun f(p0, p1, ..., p254) { return 1; } *)
Source_params255 ==
  <<Str(<<<<"f", 1>>>>), Ev("const"), Function("TYPE_FUNCTION", <<<<"f", 1>>>>), Ev("arity"),
    Ev("local"), Ev("arity"), Ev("local"), Ev("arity"), Ev("local"), Ev("arity"), Ev("local"),
    Ev("arity"), Ev("local"), Ev("arity"), Ev("local"), Ev("arity"), Ev("local"), Ev("arity"),
    Ev("local"), Ev("arity"), Ev("local"), Ev("arity"), Ev("local"), Ev("arity"), Ev("local"),
    Ev("arity"), Ev("local"), Ev("arity"), Ev("local"), Ev("arity"), Ev("local"), Ev("arity"),
    Ev("local"), Ev("arity"), Ev("local"), Ev("arity"), Ev("local"), Ev("arity"), Ev("local"),
    Ev("arity"), Ev("local"), Ev("arity"), Ev("local"), Ev("arity"), Ev("local"), Ev("arity"),
    Ev("local"), Ev("arity"), Ev("local"), Ev("arity"), Ev("local"), Ev("arity"), Ev("local"),
    Ev("arity"), Ev("local"), Ev("arity"), Ev("local"), Ev("arity"), Ev("local"), Ev("arity"),
    Ev("local"), Ev("arity"), Ev("local"), Ev("arity"), Ev("local"), Ev("arity"), Ev("local"),
    Ev("arity"), Ev("local"), Ev("arity"), Ev("local"), Ev("arity"), Ev("local"), Ev("arity"),
    Ev("local"), Ev("arity"), Ev("local"), Ev("arity"), Ev("local"), Ev("arity"), Ev("local"),
    Ev("arity"), Ev("local"), Ev("arity"), Ev("local"), Ev("arity"), Ev("local"), Ev("arity"),
    Ev("local"), Ev("arity"), Ev("local"), Ev("arity"), Ev("local"), Ev("arity"), Ev("local"),
    Ev("arity"), Ev("local"), Ev("arity"), Ev("local"), Ev("arity"), Ev("local"), Ev("arity"),
    Ev("local"), Ev("arity"), Ev("local"), Ev("arity"), Ev("local"), Ev("arity"), Ev("local"),
    Ev("arity"), Ev("local"), Ev("arity"), Ev("local"), Ev("arity"), Ev("local"), Ev("arity"),
    Ev("local"), Ev("arity"), Ev("local"), Ev("arity"), Ev("local"), Ev("arity"), Ev("local"),
    Ev("arity"), Ev("local"), Ev("arity"), Ev("local"), Ev("arity"), Ev("local"), Ev("arity"),
    Ev("local"), Ev("arity"), Ev("local"), Ev("arity"), Ev("local"), Ev("arity"), Ev("local"),
    Ev("arity"), Ev("local"), Ev("arity"), Ev("local"), Ev("arity"), Ev("local"), Ev("arity"),
    Ev("local"), Ev("arity"), Ev("local"), Ev("arity"), Ev("local"), Ev("arity"), Ev("local"),
    Ev("arity"), Ev("local"), Ev("arity"), Ev("local"), Ev("arity"), Ev("local"), Ev("arity"),
    Ev("local"), Ev("arity"), Ev("local"), Ev("arity"), Ev("local"), Ev("arity"), Ev("local"),
    Ev("arity"), Ev("local"), Ev("arity"), Ev("local"), Ev("arity"), Ev("local"), Ev("arity"),
    Ev("local"), Ev("arity"), Ev("local"), Ev("arity"), Ev("local"), Ev("arity"), Ev("local"),
    Ev("arity"), Ev("local"), Ev("arity"), Ev("local"), Ev("arity"), Ev("local"), Ev("arity"),
    Ev("local"), Ev("arity"), Ev("local"), Ev("arity"), Ev("local"), Ev("arity"), Ev("local"),
    Ev("arity"), Ev("local"), Ev("arity"), Ev("local"), Ev("arity"), Ev("local"), Ev("arity"),
    Ev("local"), Ev("arity"), Ev("local"), Ev("arity"), Ev("local"), Ev("arity"), Ev("local"),
    Ev("arity"), Ev("local"), Ev("arity"), Ev("local"), Ev("arity"), Ev("local"), Ev("arity"),
    Ev("local"), Ev("arity"), Ev("local"), Ev("arity"), Ev("local"), Ev("arity"), Ev("local"),
    Ev("arity"), Ev("local"), Ev("arity"), Ev("local"), Ev("arity"), Ev("local"), Ev("arity"),
    Ev("local"), Ev("arity"), Ev("local"), Ev("arity"), Ev("local"), Ev("arity"), Ev("local"),
    Ev("arity"), Ev("local"), Ev("arity"), Ev("local"), Ev("arity"), Ev("local"), Ev("arity"),
    Ev("local"), Ev("arity"), Ev("local"), Ev("arity"), Ev("local"), Ev("arity"), Ev("local"),
    Ev("arity"), Ev("local"), Ev("arity"), Ev("local"), Ev("arity"), Ev("local"), Ev("arity"),
    Ev("local"), Ev("arity"), Ev("local"), Ev("arity"), Ev("local"), Ev("arity"), Ev("local"),
    Ev("arity"), Ev("local"), Ev("arity"), Ev("local"), Ev("arity"), Ev("local"), Ev("arity"),
    Ev("local"), Ev("arity"), Ev("local"), Ev("arity"), Ev("local"), Ev("arity"), Ev("local"),
    Ev("arity"), Ev("local"), Ev("arity"), Ev("local"), Ev("arity"), Ev("local"), Ev("arity"),
    Ev("local"), Ev("arity"), Ev("local"), Ev("arity"), Ev("local"), Ev("arity"), Ev("local"),
    Ev("arity"), Ev("local"), Ev("arity"), Ev("local"), Ev("arity"), Ev("local"), Ev("arity"),
    Ev("local"), Ev("arity"), Ev("local"), Ev("arity"), Ev("local"), Ev("arity"), Ev("local"),
    Ev("arity"), Ev("local"), Ev("arity"), Ev("local"), Ev("arity"), Ev("local"), Ev("arity"),
    Ev("local"), Ev("arity"), Ev("local"), Ev("arity"), Ev("local"), Ev("arity"), Ev("local"),
    Ev("arity"), Ev("local"), Ev("arity"), Ev("local"), Ev("arity"), Ev("local"), Ev("arity"),
    Ev("local"), Ev("arity"), Ev("local"), Ev("arity"), Ev("local"), Ev("arity"), Ev("local"),
    Ev("arity"), Ev("local"), Ev("arity"), Ev("local"), Ev("arity"), Ev("local"), Ev("arity"),
    Ev("local"), Ev("arity"), Ev("local"), Ev("arity"), Ev("local"), Ev("arity"), Ev("local"),
    Ev("arity"), Ev("local"), Ev("arity"), Ev("local"), Ev("arity"), Ev("local"), Ev("arity"),
    Ev("local"), Ev("arity"), Ev("local"), Ev("arity"), Ev("local"), Ev("arity"), Ev("local"),
    Ev("arity"), Ev("local"), Ev("arity"), Ev("local"), Ev("arity"), Ev("local"), Ev("arity"),
    Ev("local"), Ev("arity"), Ev("local"), Ev("arity"), Ev("local"), Ev("arity"), Ev("local"),
    Ev("arity"), Ev("local"), Ev("arity"), Ev("local"), Ev("arity"), Ev("local"), Ev("arity"),
    Ev("local"), Ev("arity"), Ev("local"), Ev("arity"), Ev("local"), Ev("arity"), Ev("local"),
    Ev("arity"), Ev("local"), Ev("arity"), Ev("local"), Ev("arity"), Ev("local"), Ev("arity"),
    Ev("local"), Ev("arity"), Ev("local"), Ev("arity"), Ev("local"), Ev("arity"), Ev("local"),
    Ev("arity"), Ev("local"), Ev("arity"), Ev("local"), Ev("arity"), Ev("local"), Ev("arity"),
    Ev("local"), Ev("arity"), Ev("local"), Ev("arity"), Ev("local"), Ev("arity"), Ev("local"),
    Ev("arity"), Ev("local"), Ev("arity"), Ev("local"), Ev("arity"), Ev("local"), Ev("arity"),
    Ev("local"), Ev("arity"), Ev("local"), Ev("arity"), Ev("local"), Ev("arity"), Ev("local"),
    Ev("arity"), Ev("local"), Ev("arity"), Ev("local"), Ev("arity"), Ev("local"), Ev("arity"),
    Ev("local"), Ev("arity"), Ev("local"), Ev("arity"), Ev("local"), Ev("arity"), Ev("local"),
    Ev("arity"), Ev("local"), Ev("arity"), Ev("local"), Ev("arity"), Ev("local"), Ev("arity"),
    Ev("local"), Ev("arity"), Ev("local"), Ev("arity"), Ev("local"), Ev("arity"), Ev("local"),
    Ev("arity"), Ev("local"), Ev("arity"), Ev("local"), Ev("arity"), Ev("local"), Ev("arity"),
    Ev("local"), Ev("arity"), Ev("local"), Ev("arity"), Ev("local"), Ev("arity"), Ev("local"),
    Ev("arity"), Ev("local"), Ev("arity"), Ev("local"), Ev("arity"), Ev("local"), Ev("arity"),
    Ev("local"), Ev("arity"), Ev("local"), Ev("arity"), Ev("local"), Ev("arity"), Ev("local"),
    Ev("arity"), Ev("local"), Ev("arity"), Ev("local"), Ev("arity"), Ev("local"), Ev("arity"),
    Ev("local"), Ev("arity"), Ev("local"), Ev("arity"), Ev("local"), Ev("arity"), Ev("local"),
    Ev("arity"), Ev("local"), Ev("arity"), Ev("local"), Ev("arity"), Ev("local"), Ev("arity"),
    Ev("local"), Ev("arity"), Ev("local"), Ev("arity"), Ev("local"), Num(1), Ev("const"),
    Bytes(<<4, 0, 0>>), Sync(<<"TOKEN_SEMICOLON", "TOKEN_RIGHT_BRACE">>), Ev("end"),
    Ev("const"), Bytes(<<29, 1, 5, 0>>), Ev("end"), Ev("done")>>

(* fun f(p0, p1, ..., p255) { return 1; } *)
Source_params256 ==
  <<Str(<<<<"f", 1>>>>), Ev("const"), Function("TYPE_FUNCTION", <<<<"f", 1>>>>), Ev("arity"),
    Ev("local"), Ev("arity"), Ev("local"), Ev("arity"), Ev("local"), Ev("arity"), Ev("local"),
    Ev("arity"), Ev("local"), Ev("arity"), Ev("local"), Ev("arity"), Ev("local"), Ev("arity"),
    Ev("local"), Ev("arity"), Ev("local"), Ev("arity"), Ev("local"), Ev("arity"), Ev("local"),
    Ev("arity"), Ev("local"), Ev("arity"), Ev("local"), Ev("arity"), Ev("local"), Ev("arity"),
    Ev("local"), Ev("arity"), Ev("local"), Ev("arity"), Ev("local"), Ev("arity"), Ev("local"),
    Ev("arity"), Ev("local"), Ev("arity"), Ev("local"), Ev("arity"), Ev("local"), Ev("arity"),
    Ev("local"), Ev("arity"), Ev("local"), Ev("arity"), Ev("local"), Ev("arity"), Ev("local"),
    Ev("arity"), Ev("local"), Ev("arity"), Ev("local"), Ev("arity"), Ev("local"), Ev("arity"),
    Ev("local"), Ev("arity"), Ev("local"), Ev("arity"), Ev("local"), Ev("arity"), Ev("local"),
    Ev("arity"), Ev("local"), Ev("arity"), Ev("local"), Ev("arity"), Ev("local"), Ev("arity"),
    Ev("local"), Ev("arity"), Ev("local"), Ev("arity"), Ev("local"), Ev("arity"), Ev("local"),
    Ev("arity"), Ev("local"), Ev("arity"), Ev("local"), Ev("arity"), Ev("local"), Ev("arity"),
    Ev("local"), Ev("arity"), Ev("local"), Ev("arity"), Ev("local"), Ev("arity"), Ev("local"),
    Ev("arity"), Ev("local"), Ev("arity"), Ev("local"), Ev("arity"), Ev("local"), Ev("arity"),
    Ev("local"), Ev("arity"), Ev("local"), Ev("arity"), Ev("local"), Ev("arity"), Ev("local"),
    Ev("arity"), Ev("local"), Ev("arity"), Ev("local"), Ev("arity"), Ev("local"), Ev("arity"),
    Ev("local"), Ev("arity"), Ev("local"), Ev("arity"), Ev("local"), Ev("arity"), Ev("local"),
    Ev("arity"), Ev("local"), Ev("arity"), Ev("local"), Ev("arity"), Ev("local"), Ev("arity"),
    Ev("local"), Ev("arity"), Ev("local"), Ev("arity"), Ev("local"), Ev("arity"), Ev("local"),
    Ev("arity"), Ev("local"), Ev("arity"), Ev("local"), Ev("arity"), Ev("local"), Ev("arity"),
    Ev("local"), Ev("arity"), Ev("local"), Ev("arity"), Ev("local"), Ev("arity"), Ev("local"),
    Ev("arity"), Ev("local"), Ev("arity"), Ev("local"), Ev("arity"), Ev("local"), Ev("arity"),
    Ev("local"), Ev("arity"), Ev("local"), Ev("arity"), Ev("local"), Ev("arity"), Ev("local"),
    Ev("arity"), Ev("local"), Ev("arity"), Ev("local"), Ev("arity"), Ev("local"), Ev("arity"),
    Ev("local"), Ev("arity"), Ev("local"), Ev("arity"), Ev("local"), Ev("arity"), Ev("local"),
    Ev("arity"), Ev("local"), Ev("arity"), Ev("local"), Ev("arity"), Ev("local"), Ev("arity"),
    Ev("local"), Ev("arity"), Ev("local"), Ev("arity"), Ev("local"), Ev("arity"), Ev("local"),
    Ev("arity"), Ev("local"), Ev("arity"), Ev("local"), Ev("arity"), Ev("local"), Ev("arity"),
    Ev("local"), Ev("arity"), Ev("local"), Ev("arity"), Ev("local"), Ev("arity"), Ev("local"),
    Ev("arity"), Ev("local"), Ev("arity"), Ev("local"), Ev("arity"), Ev("local"), Ev("arity"),
    Ev("local"), Ev("arity"), Ev("local"), Ev("arity"), Ev("local"), Ev("arity"), Ev("local"),
    Ev("arity"), Ev("local"), Ev("arity"), Ev("local"), Ev("arity"), Ev("local"), Ev("arity"),
    Ev("local"), Ev("arity"), Ev("local"), Ev("arity"), Ev("local"), Ev("arity"), Ev("local"),
    Ev("arity"), Ev("local"), Ev("arity"), Ev("local"), Ev("arity"), Ev("local"), Ev("arity"),
    Ev("local"), Ev("arity"), Ev("local"), Ev("arity"), Ev("local"), Ev("arity"), Ev("local"),
    Ev("arity"), Ev("local"), Ev("arity"), Ev("local"), Ev("arity"), Ev("local"), Ev("arity"),
    Ev("local"), Ev("arity"), Ev("local"), Ev("arity"), Ev("local"), Ev("arity"), Ev("local"),
    Ev("arity"), Ev("local"), Ev("arity"), Ev("local"), Ev("arity"), Ev("local"), Ev("arity"),
    Ev("local"), Ev("arity"), Ev("local"), Ev("arity"), Ev("local"), Ev("arity"), Ev("local"),
    Ev("arity"), Ev("local"), Ev("arity"), Ev("local"), Ev("arity"), Ev("local"), Ev("arity"),
    Ev("local"), Ev("arity"), Ev("local"), Ev("arity"), Ev("local"), Ev("arity"), Ev("local"),
    Ev("arity"), Ev("local"), Ev("arity"), Ev("local"), Ev("arity"), Ev("local"), Ev("arity"),
    Ev("local"), Ev("arity"), Ev("local"), Ev("arity"), Ev("local"), Ev("arity"), Ev("local"),
    Ev("arity"), Ev("local"), Ev("arity"), Ev("local"), Ev("arity"), Ev("local"), Ev("arity"),
    Ev("local"), Ev("arity"), Ev("local"), Ev("arity"), Ev("local"), Ev("arity"), Ev("local"),
    Ev("arity"), Ev("local"), Ev("arity"), Ev("local"), Ev("arity"), Ev("local"), Ev("arity"),
    Ev("local"), Ev("arity"), Ev("local"), Ev("arity"), Ev("local"), Ev("arity"), Ev("local"),
    Ev("arity"), Ev("local"), Ev("arity"), Ev("local"), Ev("arity"), Ev("local"), Ev("arity"),
    Ev("local"), Ev("arity"), Ev("local"), Ev("arity"), Ev("local"), Ev("arity"), Ev("local"),
    Ev("arity"), Ev("local"), Ev("arity"), Ev("local"), Ev("arity"), Ev("local"), Ev("arity"),
    Ev("local"), Ev("arity"), Ev("local"), Ev("arity"), Ev("local"), Ev("arity"), Ev("local"),
    Ev("arity"), Ev("local"), Ev("arity"), Ev("local"), Ev("arity"), Ev("local"), Ev("arity"),
    Ev("local"), Ev("arity"), Ev("local"), Ev("arity"), Ev("local"), Ev("arity"), Ev("local"),
    Ev("arity"), Ev("local"), Ev("arity"), Ev("local"), Ev("arity"), Ev("local"), Ev("arity"),
    Ev("local"), Ev("arity"), Ev("local"), Ev("arity"), Ev("local"), Ev("arity"), Ev("local"),
    Ev("arity"), Ev("local"), Ev("arity"), Ev("local"), Ev("arity"), Ev("local"), Ev("arity"),
    Ev("local"), Ev("arity"), Ev("local"), Ev("arity"), Ev("local"), Ev("arity"), Ev("local"),
    Ev("arity"), Ev("local"), Ev("arity"), Ev("local"), Ev("arity"), Ev("local"), Ev("arity"),
    Ev("local"), Ev("arity"), Ev("local"), Ev("arity"), Ev("local"), Ev("arity"), Ev("local"),
    Ev("arity"), Ev("local"), Ev("arity"), Ev("local"), Ev("arity"), Ev("local"), Ev("arity"),
    Ev("local"), Ev("arity"), Ev("local"), Ev("arity"), Ev("local"), Ev("arity"), Ev("local"),
    Ev("arity"), Ev("local"), Ev("arity"), Ev("local"), Ev("arity"), Ev("local"), Ev("arity"),
    Ev("local"), Ev("arity"), Ev("local"), Ev("arity"), Ev("local"), Ev("arity"), Ev("local"),
    Ev("arity"), Ev("local"), Ev("arity"), Ev("local"), Ev("arity"), Ev("local"), Ev("arity"),
    Ev("local"), Ev("arity"), Ev("local"), Ev("arity"), Ev("local"), Ev("arity"), Ev("local"),
    Ev("arity"), Ev("local"), Ev("arity"), Ev("local"), Ev("arity"), Ev("local"), Ev("arity"),
    Ev("local"), Ev("arity"), Ev("local"), Ev("arity"), Ev("local"), Ev("arity"), Ev("local"),
    Ev("arity"), Ev("local"), Ev("arity"), Ev("local"), Ev("arity"), Ev("local"), Ev("arity"),
    Ev("local"), Ev("arity"), Ev("local"), Ev("arity"), Ev("local"), Ev("arity"), Ev("local"),
    Ev("arity"), Ev("local"), Ev("arity"), Ev("local"), Ev("arity"), Ev("local"), Ev("arity"),
    Ev("local"), Ev("arity"), Ev("local"), Ev("arity"), Ev("local"), Ev("arity"), Ev("local"),
    Ev("arity"), Ev("local"), Ev("arity"), Ev("local"), Ev("arity"), Ev("local"), Ev("arity"),
    Ev("local"), Ev("arity"), Ev("local"), Ev("arity"), Ev("local"), Ev("arity"), Ev("local"),
    Num(1), Ev("const"), Bytes(<<4, 0, 0>>), Sync(<<"TOKEN_SEMICOLON", "TOKEN_RIGHT_BRACE">>),
    Ev("end"), Ev("const"), Bytes(<<29, 1, 5, 0>>), Ev("end"), Ev("done")>>

(* class A { m(p0, p1, ..., p254) { return 1; } } *)
Source_method255 ==
  <<Str(<<<<"A", 1>>>>), Ev("const"), Bytes(<<30, 0, 5, 0>>), Str(<<<<"A", 1>>>>), Ev("const"),
    Bytes(<<6, 1>>), Str(<<<<"m", 1>>>>), Ev("const"), Function("TYPE_METHOD", <<<<"m", 1>>>>),
    Ev("arity"), Ev("local"), Ev("arity"), Ev("local"), Ev("arity"), Ev("local"), Ev("arity"),
    Ev("local"), Ev("arity"), Ev("local"), Ev("arity"), Ev("local"), Ev("arity"), Ev("local"),
    Ev("arity"), Ev("local"), Ev("arity"), Ev("local"), Ev("arity"), Ev("local"), Ev("arity"),
    Ev("local"), Ev("arity"), Ev("local"), Ev("arity"), Ev("local"), Ev("arity"), Ev("local"),
    Ev("arity"), Ev("local"), Ev("arity"), Ev("local"), Ev("arity"), Ev("local"), Ev("arity"),
    Ev("local"), Ev("arity"), Ev("local"), Ev("arity"), Ev("local"), Ev("arity"), Ev("local"),
    Ev("arity"), Ev("local"), Ev("arity"), Ev("local"), Ev("arity"), Ev("local"), Ev("arity"),
    Ev("local"), Ev("arity"), Ev("local"), Ev("arity"), Ev("local"), Ev("arity"), Ev("local"),
    Ev("arity"), Ev("local"), Ev("arity"), Ev("local"), Ev("arity"), Ev("local"), Ev("arity"),
    Ev("local"), Ev("arity"), Ev("local"), Ev("arity"), Ev("local"), Ev("arity"), Ev("local"),
    Ev("arity"), Ev("local"), Ev("arity"), Ev("local"), Ev("arity"), Ev("local"), Ev("arity"),
    Ev("local"), Ev("arity"), Ev("local"), Ev("arity"), Ev("local"), Ev("arity"), Ev("local"),
    Ev("arity"), Ev("local"), Ev("arity"), Ev("local"), Ev("arity"), Ev("local"), Ev("arity"),
    Ev("local"), Ev("arity"), Ev("local"), Ev("arity"), Ev("local"), Ev("arity"), Ev("local"),
    Ev("arity"), Ev("local"), Ev("arity"), Ev("local"), Ev("arity"), Ev("local"), Ev("arity"),
    Ev("local"), Ev("arity"), Ev("local"), Ev("arity"), Ev("local"), Ev("arity"), Ev("local"),
    Ev("arity"), Ev("local"), Ev("arity"), Ev("local"), Ev("arity"), Ev("local"), Ev("arity"),
    Ev("local"), Ev("arity"), Ev("local"), Ev("arity"), Ev("local"), Ev("arity"), Ev("local"),
    Ev("arity"), Ev("local"), Ev("arity"), Ev("local"), Ev("arity"), Ev("local"), Ev("arity"),
    Ev("local"), Ev("arity"), Ev("local"), Ev("arity"), Ev("local"), Ev("arity"), Ev("local"),
    Ev("arity"), Ev("local"), Ev("arity"), Ev("local"), Ev("arity"), Ev("local"), Ev("arity"),
    Ev("local"), Ev("arity"), Ev("local"), Ev("arity"), Ev("local"), Ev("arity"), Ev("local"),
    Ev("arity"), Ev("local"), Ev("arity"), Ev("local"), Ev("arity"), Ev("local"), Ev("arity"),
    Ev("local"), Ev("arity"), Ev("local"), Ev("arity"), Ev("local"), Ev("arity"), Ev("local"),
    Ev("arity"), Ev("local"), Ev("arity"), Ev("local"), Ev("arity"), Ev("local"), Ev("arity"),
    Ev("local"), Ev("arity"), Ev("local"), Ev("arity"), Ev("local"), Ev("arity"), Ev("local"),
    Ev("arity"), Ev("local"), Ev("arity"), Ev("local"), Ev("arity"), Ev("local"), Ev("arity"),
    Ev("local"), Ev("arity"), Ev("local"), Ev("arity"), Ev("local"), Ev("arity"), Ev("local"),
    Ev("arity"), Ev("local"), Ev("arity"), Ev("local"), Ev("arity"), Ev("local"), Ev("arity"),
    Ev("local"), Ev("arity"), Ev("local"), Ev("arity"), Ev("local"), Ev("arity"), Ev("local"),
    Ev("arity"), Ev("local"), Ev("arity"), Ev("local"), Ev("arity"), Ev("local"), Ev("arity"),
    Ev("local"), Ev("arity"), Ev("local"), Ev("arity"), Ev("local"), Ev("arity"), Ev("local"),
    Ev("arity"), Ev("local"), Ev("arity"), Ev("local"), Ev("arity"), Ev("local"), Ev("arity"),
    Ev("local"), Ev("arity"), Ev("local"), Ev("arity"), Ev("local"), Ev("arity"), Ev("local"),
    Ev("arity"), Ev("local"), Ev("arity"), Ev("local"), Ev("arity"), Ev("local"), Ev("arity"),
    Ev("local"), Ev("arity"), Ev("local"), Ev("arity"), Ev("local"), Ev("arity"), Ev("local"),
    Ev("arity"), Ev("local"), Ev("arity"), Ev("local"), Ev("arity"), Ev("local"), Ev("arity"),
    Ev("local"), Ev("arity"), Ev("local"), Ev("arity"), Ev("local"), Ev("arity"), Ev("local"),
    Ev("arity"), Ev("local"), Ev("arity"), Ev("local"), Ev("arity"), Ev("local"), Ev("arity"),
    Ev("local"), Ev("arity"), Ev("local"), Ev("arity"), Ev("local"), Ev("arity"), Ev("local"),
    Ev("arity"), Ev("local"), Ev("arity"), Ev("local"), Ev("arity"), Ev("local"), Ev("arity"),
    Ev("local"), Ev("arity"), Ev("local"), Ev("arity"), Ev("local"), Ev("arity"), Ev("local"),
    Ev("arity"), Ev("local"), Ev("arity"), Ev("local"), Ev("arity"), Ev("local"), Ev("arity"),
    Ev("local"), Ev("arity"), Ev("local"), Ev("arity"), Ev("local"), Ev("arity"), Ev("local"),
    Ev("arity"), Ev("local"), Ev("arity"), Ev("local"), Ev("arity"), Ev("local"), Ev("arity"),
    Ev("local"), Ev("arity"), Ev("local"), Ev("arity"), Ev("local"), Ev("arity"), Ev("local"),
    Ev("arity"), Ev("local"), Ev("arity"), Ev("local"), Ev("arity"), Ev("local"), Ev("arity"),
    Ev("local"), Ev("arity"), Ev("local"), Ev("arity"), Ev("local"), Ev("arity"), Ev("local"),
    Ev("arity"), Ev("local"), Ev("arity"), Ev("local"), Ev("arity"), Ev("local"), Ev("arity"),
    Ev("local"), Ev("arity"), Ev("local"), Ev("arity"), Ev("local"), Ev("arity"), Ev("local"),
    Ev("arity"), Ev("local"), Ev("arity"), Ev("local"), Ev("arity"), Ev("local"), Ev("arity"),
    Ev("local"), Ev("arity"), Ev("local"), Ev("arity"), Ev("local"), Ev("arity"), Ev("local"),
    Ev("arity"), Ev("local"), Ev("arity"), Ev("local"), Ev("arity"), Ev("local"), Ev("arity"),
    Ev("local"), Ev("arity"), Ev("local"), Ev("arity"), Ev("local"), Ev("arity"), Ev("local"),
    Ev("arity"), Ev("local"), Ev("arity"), Ev("local"), Ev("arity"), Ev("local"), Ev("arity"),
    Ev("local"), Ev("arity"), Ev("local"), Ev("arity"), Ev("local"), Ev("arity"), Ev("local"),
    Ev("arity"), Ev("local"), Ev("arity"), Ev("local"), Ev("arity"), Ev("local"), Ev("arity"),
    Ev("local"), Ev("arity"), Ev("local"), Ev("arity"), Ev("local"), Ev("arity"), Ev("local"),
    Ev("arity"), Ev("local"), Ev("arity"), Ev("local"), Ev("arity"), Ev("local"), Ev("arity"),
    Ev("local"), Ev("arity"), Ev("local"), Ev("arity"), Ev("local"), Ev("arity"), Ev("local"),
    Ev("arity"), Ev("local"), Ev("arity"), Ev("local"), Ev("arity"), Ev("local"), Ev("arity"),
    Ev("local"), Ev("arity"), Ev("local"), Ev("arity"), Ev("local"), Ev("arity"), Ev("local"),
    Ev("arity"), Ev("local"), Ev("arity"), Ev("local"), Ev("arity"), Ev("local"), Ev("arity"),
    Ev("local"), Ev("arity"), Ev("local"), Ev("arity"), Ev("local"), Ev("arity"), Ev("local"),
    Ev("arity"), Ev("local"), Ev("arity"), Ev("local"), Ev("arity"), Ev("local"), Ev("arity"),
    Ev("local"), Ev("arity"), Ev("local"), Ev("arity"), Ev("local"), Ev("arity"), Ev("local"),
    Ev("arity"), Ev("local"), Ev("arity"), Ev("local"), Ev("arity"), Ev("local"), Ev("arity"),
    Ev("local"), Ev("arity"), Ev("local"), Ev("arity"), Ev("local"), Ev("arity"), Ev("local"),
    Ev("arity"), Ev("local"), Ev("arity"), Ev("local"), Ev("arity"), Ev("local"), Ev("arity"),
    Ev("local"), Ev("arity"), Ev("local"), Ev("arity"), Ev("local"), Ev("arity"), Ev("local"),
    Ev("arity"), Ev("local"), Ev("arity"), Ev("local"), Ev("arity"), Ev("local"), Ev("arity"),
    Ev("local"), Ev("arity"), Ev("local"), Ev("arity"), Ev("local"), Ev("arity"), Ev("local"),
    Ev("arity"), Ev("local"), Ev("arity"), Ev("local"), Ev("arity"), Ev("local"), Num(1),
    Ev("const"), Bytes(<<4, 0, 0>>), Sync(<<"TOKEN_SEMICOLON", "TOKEN_RIGHT_BRACE">>),
    Ev("end"), Ev("const"), Bytes(<<29, 3, 31, 2, 24>>), Ev("end"), Ev("done")>>

(* var ra; var rb;
   fun outer() {
     var a = 1; var b = 2;
     fun fb() { return b; }
     fun fab() { return a + b; }
     ra = fab(); rb = fb();
   }
   outer(); *)
Source_capture_order ==
  <<Str(<<<<"r", 1>>, <<"a", 1>>>>), Ev("const"), Bytes(<<3, 5, 0>>),
    Str(<<<<"r", 1>>, <<"b", 1>>>>), Ev("const"), Bytes(<<3, 5, 1>>),
    Str(<<<<"o", 1>>, <<"u", 1>>, <<"t", 1>>, <<"e", 1>>, <<"r", 1>>>>), Ev("const"),
    Function("TYPE_FUNCTION", <<<<"o", 1>>, <<"u", 1>>, <<"t", 1>>, <<"e", 1>>, <<"r", 1>>>>),
    Ev("local"), Num(1), Ev("const"), Bytes(<<4, 0>>), Ev("local"), Num(2), Ev("const"),
    Bytes(<<4, 1>>), Ev("local"), Function("TYPE_FUNCTION", <<<<"f", 1>>, <<"b", 1>>>>),
    Upvalue(0), Bytes(<<10, 0, 0>>), Ev("end"), Ev("const"), Bytes(<<29, 2, 1, 2>>),
    Ev("local"), Function("TYPE_FUNCTION", <<<<"f", 1>>, <<"a", 1>>, <<"b", 1>>>>), Upvalue(0),
    Bytes(<<10, 0>>), Upvalue(0), Bytes(<<10, 1, 17, 0>>), Ev("end"), Ev("const"),
    Bytes(<<29, 3, 1, 1, 1, 2>>), Str(<<<<"r", 1>>, <<"a", 1>>>>), Ev("const"),
    Bytes(<<8, 4, 28, 0, 7, 4, 24>>), Str(<<<<"r", 1>>, <<"b", 1>>>>), Ev("const"),
    Bytes(<<8, 3, 28, 0, 7, 5, 24>>), Ev("end"), Ev("const"), Bytes(<<29, 3, 5, 2>>),
    Str(<<<<"o", 1>>, <<"u", 1>>, <<"t", 1>>, <<"e", 1>>, <<"r", 1>>>>), Ev("const"),
    Bytes(<<6, 4, 28, 0, 24>>), Ev("end"), Ev("done")>>

(* class Box { init(v) { this.v = v; } sum(a, b) { return this.v + a + b; } }
   fun add(a, b) { return a + b; }
   var box = Box(1);
   box.add = add;
   var r1 = box.add(2, 3);
   var r2 = box.sum(4, 5);
   box.make = Box;
   var r3 = box.make(7);
   box.now = clock;
   var r4 = box.now();
   box.v(1); *)
Source_invoke_field ==
  <<Str(<<<<"B", 1>>, <<"o", 1>>, <<"x", 1>>>>), Ev("const"), Bytes(<<30, 0, 5, 0>>),
    Str(<<<<"B", 1>>, <<"o", 1>>, <<"x", 1>>>>), Ev("const"), Bytes(<<6, 1>>),
    Str(<<<<"i", 1>>, <<"n", 1>>, <<"i", 1>>, <<"t", 1>>>>), Ev("const"),
    Function("TYPE_INITIALIZER", <<<<"i", 1>>, <<"n", 1>>, <<"i", 1>>, <<"t", 1>>>>),
    Ev("arity"), Ev("local"), Bytes(<<8, 0>>), Str(<<<<"v", 1>>>>), Ev("const"),
    Bytes(<<8, 1, 13, 0, 24>>), Ev("end"), Ev("const"), Bytes(<<29, 3, 31, 2>>),
    Str(<<<<"s", 1>>, <<"u", 1>>, <<"m", 1>>>>), Ev("const"),
    Function("TYPE_METHOD", <<<<"s", 1>>, <<"u", 1>>, <<"m", 1>>>>), Ev("arity"), Ev("local"),
    Ev("arity"), Ev("local"), Bytes(<<8, 0>>), Str(<<<<"v", 1>>>>), Ev("const"),
    Bytes(<<12, 0, 8, 1, 17, 8, 2, 17, 0>>), Ev("end"), Ev("const"),
    Bytes(<<29, 5, 31, 4, 24>>), Str(<<<<"a", 1>>, <<"d", 2>>>>), Ev("const"),
    Function("TYPE_FUNCTION", <<<<"a", 1>>, <<"d", 2>>>>), Ev("arity"), Ev("local"),
    Ev("arity"), Ev("local"), Bytes(<<8, 1, 8, 2, 17, 0>>), Ev("end"), Ev("const"),
    Bytes(<<29, 7, 5, 6>>), Str(<<<<"b", 1>>, <<"o", 1>>, <<"x", 1>>>>), Ev("const"),
    Str(<<<<"B", 1>>, <<"o", 1>>, <<"x", 1>>>>), Ev("const"), Bytes(<<6, 9>>), Num(1),
    Ev("const"), Bytes(<<4, 10, 28, 1, 5, 8>>), Str(<<<<"b", 1>>, <<"o", 1>>, <<"x", 1>>>>),
    Ev("const"), Bytes(<<6, 11>>), Str(<<<<"a", 1>>, <<"d", 2>>>>), Ev("const"),
    Str(<<<<"a", 1>>, <<"d", 2>>>>), Ev("const"), Bytes(<<6, 13, 13, 12, 24>>),
    Str(<<<<"r", 1>>, <<"1", 1>>>>), Ev("const"), Str(<<<<"b", 1>>, <<"o", 1>>, <<"x", 1>>>>),
    Ev("const"), Bytes(<<6, 15>>), Str(<<<<"a", 1>>, <<"d", 2>>>>), Ev("const"), Num(2),
    Ev("const"), Bytes(<<4, 17>>), Num(3), Ev("const"), Bytes(<<4, 18, 32, 16, 2, 5, 14>>),
    Str(<<<<"r", 1>>, <<"2", 1>>>>), Ev("const"), Str(<<<<"b", 1>>, <<"o", 1>>, <<"x", 1>>>>),
    Ev("const"), Bytes(<<6, 20>>), Str(<<<<"s", 1>>, <<"u", 1>>, <<"m", 1>>>>), Ev("const"),
    Num(4), Ev("const"), Bytes(<<4, 22>>), Num(5), Ev("const"),
    Bytes(<<4, 23, 32, 21, 2, 5, 19>>), Str(<<<<"b", 1>>, <<"o", 1>>, <<"x", 1>>>>),
    Ev("const"), Bytes(<<6, 24>>), Str(<<<<"m", 1>>, <<"a", 1>>, <<"k", 1>>, <<"e", 1>>>>),
    Ev("const"), Str(<<<<"B", 1>>, <<"o", 1>>, <<"x", 1>>>>), Ev("const"),
    Bytes(<<6, 26, 13, 25, 24>>), Str(<<<<"r", 1>>, <<"3", 1>>>>), Ev("const"),
    Str(<<<<"b", 1>>, <<"o", 1>>, <<"x", 1>>>>), Ev("const"), Bytes(<<6, 28>>),
    Str(<<<<"m", 1>>, <<"a", 1>>, <<"k", 1>>, <<"e", 1>>>>), Ev("const"), Num(7), Ev("const"),
    Bytes(<<4, 30, 32, 29, 1, 5, 27>>), Str(<<<<"b", 1>>, <<"o", 1>>, <<"x", 1>>>>),
    Ev("const"), Bytes(<<6, 31>>), Str(<<<<"n", 1>>, <<"o", 1>>, <<"w", 1>>>>), Ev("const"),
    Str(<<<<"c", 1>>, <<"l", 1>>, <<"o", 1>>, <<"c", 1>>, <<"k", 1>>>>), Ev("const"),
    Bytes(<<6, 33, 13, 32, 24>>), Str(<<<<"r", 1>>, <<"4", 1>>>>), Ev("const"),
    Str(<<<<"b", 1>>, <<"o", 1>>, <<"x", 1>>>>), Ev("const"), Bytes(<<6, 35>>),
    Str(<<<<"n", 1>>, <<"o", 1>>, <<"w", 1>>>>), Ev("const"), Bytes(<<32, 36, 0, 5, 34>>),
    Str(<<<<"b", 1>>, <<"o", 1>>, <<"x", 1>>>>), Ev("const"), Bytes(<<6, 37>>),
    Str(<<<<"v", 1>>>>), Ev("const"), Num(1), Ev("const"), Bytes(<<4, 39, 32, 38, 1, 24>>),
    Ev("end"), Ev("done")>>

(* class Box { sum(a, b) { return a + b; } }
   var box = Box();
   box.held = box.sum;
   var r1 = box.held(1, 2);
   box.sum(1); *)
Source_invoke_arity ==
  <<Str(<<<<"B", 1>>, <<"o", 1>>, <<"x", 1>>>>), Ev("const"), Bytes(<<30, 0, 5, 0>>),
    Str(<<<<"B", 1>>, <<"o", 1>>, <<"x", 1>>>>), Ev("const"), Bytes(<<6, 1>>),
    Str(<<<<"s", 1>>, <<"u", 1>>, <<"m", 1>>>>), Ev("const"),
    Function("TYPE_METHOD", <<<<"s", 1>>, <<"u", 1>>, <<"m", 1>>>>), Ev("arity"), Ev("local"),
    Ev("arity"), Ev("local"), Bytes(<<8, 1, 8, 2, 17, 0>>), Ev("end"), Ev("const"),
    Bytes(<<29, 3, 31, 2, 24>>), Str(<<<<"b", 1>>, <<"o", 1>>, <<"x", 1>>>>), Ev("const"),
    Str(<<<<"B", 1>>, <<"o", 1>>, <<"x", 1>>>>), Ev("const"), Bytes(<<6, 5, 28, 0, 5, 4>>),
    Str(<<<<"b", 1>>, <<"o", 1>>, <<"x", 1>>>>), Ev("const"), Bytes(<<6, 6>>),
    Str(<<<<"h", 1>>, <<"e", 1>>, <<"l", 1>>, <<"d", 1>>>>), Ev("const"),
    Str(<<<<"b", 1>>, <<"o", 1>>, <<"x", 1>>>>), Ev("const"), Bytes(<<6, 8>>),
    Str(<<<<"s", 1>>, <<"u", 1>>, <<"m", 1>>>>), Ev("const"), Bytes(<<12, 9, 13, 7, 24>>),
    Str(<<<<"r", 1>>, <<"1", 1>>>>), Ev("const"), Str(<<<<"b", 1>>, <<"o", 1>>, <<"x", 1>>>>),
    Ev("const"), Bytes(<<6, 11>>), Str(<<<<"h", 1>>, <<"e", 1>>, <<"l", 1>>, <<"d", 1>>>>),
    Ev("const"), Num(1), Ev("const"), Bytes(<<4, 13>>), Num(2), Ev("const"),
    Bytes(<<4, 14, 32, 12, 2, 5, 10>>), Str(<<<<"b", 1>>, <<"o", 1>>, <<"x", 1>>>>),
    Ev("const"), Bytes(<<6, 15>>), Str(<<<<"s", 1>>, <<"u", 1>>, <<"m", 1>>>>), Ev("const"),
    Num(1), Ev("const"), Bytes(<<4, 17, 32, 16, 1, 24>>), Ev("end"), Ev("done")>>

(* var keep; var out;
   fun outer(n) {
     var x = n;
     fun getx() { return x; }
     fun mid(a) {
       var y = a + x;
       fun gety() { return y; }
       keep = gety;
       return y;
     }
     out = mid(10);
     return getx();
   }
   var r = outer(1);
   var s = keep(); *)
Source_return_closes ==
  <<Str(<<<<"k", 1>>, <<"e", 2>>, <<"p", 1>>>>), Ev("const"), Bytes(<<3, 5, 0>>),
    Str(<<<<"o", 1>>, <<"u", 1>>, <<"t", 1>>>>), Ev("const"), Bytes(<<3, 5, 1>>),
    Str(<<<<"o", 1>>, <<"u", 1>>, <<"t", 1>>, <<"e", 1>>, <<"r", 1>>>>), Ev("const"),
    Function("TYPE_FUNCTION", <<<<"o", 1>>, <<"u", 1>>, <<"t", 1>>, <<"e", 1>>, <<"r", 1>>>>),
    Ev("arity"), Ev("local"), Ev("local"), Bytes(<<8, 1>>), Ev("local"),
    Function("TYPE_FUNCTION", <<<<"g", 1>>, <<"e", 1>>, <<"t", 1>>, <<"x", 1>>>>), Upvalue(0),
    Bytes(<<10, 0, 0>>), Ev("end"), Ev("const"), Bytes(<<29, 0, 1, 2>>), Ev("local"),
    Function("TYPE_FUNCTION", <<<<"m", 1>>, <<"i", 1>>, <<"d", 1>>>>), Ev("arity"),
    Ev("local"), Ev("local"), Bytes(<<8, 1>>), Upvalue(0), Bytes(<<10, 0, 17>>), Ev("local"),
    Function("TYPE_FUNCTION", <<<<"g", 1>>, <<"e", 1>>, <<"t", 1>>, <<"y", 1>>>>), Upvalue(0),
    Bytes(<<10, 0, 0>>), Ev("end"), Ev("const"), Bytes(<<29, 0, 1, 2>>),
    Str(<<<<"k", 1>>, <<"e", 2>>, <<"p", 1>>>>), Ev("const"),
    Bytes(<<8, 3, 7, 1, 24, 8, 2, 0>>), Ev("end"), Ev("const"), Bytes(<<29, 1, 1, 2>>),
    Str(<<<<"o", 1>>, <<"u", 1>>, <<"t", 1>>>>), Ev("const"), Bytes(<<8, 4>>), Num(10),
    Ev("const"), Bytes(<<4, 3, 28, 1, 7, 2, 24, 8, 3, 28, 0, 0>>), Ev("end"), Ev("const"),
    Bytes(<<29, 3, 5, 2>>), Str(<<<<"r", 1>>>>), Ev("const"),
    Str(<<<<"o", 1>>, <<"u", 1>>, <<"t", 1>>, <<"e", 1>>, <<"r", 1>>>>), Ev("const"),
    Bytes(<<6, 5>>), Num(1), Ev("const"), Bytes(<<4, 6, 28, 1, 5, 4>>), Str(<<<<"s", 1>>>>),
    Ev("const"), Str(<<<<"k", 1>>, <<"e", 2>>, <<"p", 1>>>>), Ev("const"),
    Bytes(<<6, 8, 28, 0, 5, 7>>), Ev("end"), Ev("done")>>

(* var 1 @ @ ;
   var 2;
   x = ;
   { 3 4 if (a) b; }
   y = 1 + *)
Source_panic ==
  <<Ev("error"), Str(<<<<"v", 1>>, <<"a", 1>>, <<"r", 1>>>>), Ev("const"), Bytes(<<3>>),
    Ev("error"), Bytes(<<5, 0>>),
    Sync(<<"TOKEN_VAR", "TOKEN_INT", "TOKEN_ERROR", "TOKEN_ERROR", "TOKEN_SEMICOLON", "TOKEN_VAR">>),
    Ev("error"), Str(<<<<"v", 1>>, <<"a", 1>>, <<"r", 1>>>>), Ev("const"), Bytes(<<3>>),
    Ev("error"), Bytes(<<5, 1>>),
    Sync(<<"TOKEN_VAR", "TOKEN_INT", "TOKEN_SEMICOLON", "TOKEN_IDENTIFIER">>),
    Str(<<<<"x", 1>>>>), Ev("const"), Ev("error"), Bytes(<<7, 2>>), Ev("error"), Bytes(<<24>>),
    Sync(<<"TOKEN_SEMICOLON", "TOKEN_LEFT_BRACE">>), Num(3), Ev("const"), Bytes(<<4, 3>>),
    Ev("error"), Bytes(<<24>>), Sync(<<"TOKEN_INT", "TOKEN_INT", "TOKEN_IF">>),
    Str(<<<<"a", 1>>>>), Ev("const"), Bytes(<<6, 4, 26, 255, 255, 24>>), Str(<<<<"b", 1>>>>),
    Ev("const"), Bytes(<<6, 5, 24, 25, 255, 255>>), Patch(15, 0, 7), Bytes(<<24>>),
    Patch(22, 0, 1), Str(<<<<"y", 1>>>>), Ev("const"), Num(1), Ev("const"), Bytes(<<4, 7>>),
    Ev("error"), Bytes(<<17, 7, 6>>), Ev("error"), Bytes(<<24>>),
    Sync(<<"TOKEN_EOF", "TOKEN_EOF">>), Ev("end"), Ev("done")>>

Sources ==
  <<Source_arith,
    Source_strings,
    Source_closure,
    Source_class,
    Source_doughnut,
    Source_noinit_args,
    Source_undefined_get,
    Source_undefined_set,
    Source_arity,
    Source_not_callable,
    Source_invoke_number,
    Source_undefined_property,
    Source_add_mixed,
    Source_less_nil,
    Source_init_arity,
    Source_superclass,
    Source_undefined_method,
    Source_get_property_number,
    Source_set_property_number,
    Source_negate_nil,
    Source_super_missing,
    Source_invoke_super_missing,
    Source_overflow,
    Source_depth64,
    Source_compile_error,
    Source_init_return_value,
    Source_heavy,
    Source_again,
    Source_again_strings,
    Source_session_define,
    Source_session_use,
    Source_open_error,
    Source_call_kept,
    Source_params254,
    Source_params255,
    Source_params256,
    Source_method255,
    Source_capture_order,
    Source_invoke_field,
    Source_invoke_arity,
    Source_return_closes,
    Source_panic>>

(* the sources a session may run after its first one *)
Again ==
  {i \in 1..Len(Sources) :
     Sources[i] \in {Source_again, Source_again_strings, Source_compile_error,
                    Source_undefined_get, Source_session_use, Source_call_kept}}

MaxInterpret == 3

MaxClock == 1

-----------------------------------------------------------------------------
(* The state machine *)

NoStep ==
  [op |-> -1, stack |-> <<>>, frames |-> <<>>, open_upvalues |-> <<>>, heap |-> <<>>,
   births |-> <<>>]

(* the machine of StackSpec before interpret *)
NoHeights ==
  [top |-> 0, frames |-> <<>>, shape |-> [locals |-> 0, args |-> 0, temps |-> 0, depth |-> 0],
   ub |-> FALSE, halt |-> ""]

(* the variables of the table and of the hash specifications, at rest *)
NoCallYet == [op |-> "none", key |-> 0, value |-> NIL_VAL, ret |-> FALSE, found |-> 0]

NoTable ==
  [count |-> 0, capacity |-> 0, entries |-> <<>>, ub |-> FALSE, stuck |-> FALSE,
   last |-> NoCallYet]

NoHash == [key |-> <<>>, length |-> 0, i |-> 0, hash |-> <<0, 0>>, at |-> "idle"]

(* the variables of the compiler, lexer, number conversion and chunk        *)
(* specifications, at rest                                                 *)
NoUnit == [at |-> "idle"]

NoLexing == [at |-> "idle"]

NoConv == [at |-> "idle"]

NoWriting == [at |-> "idle"]

NoParse ==
  [had_error |-> FALSE, panic_mode |-> FALSE, value |-> NIL_VAL, printed |-> 0,
   suppressed |-> 0, synced |-> 0, stopped |-> <<>>, lexed |-> 0]

Init ==
  /\ \E stress \in BOOLEAN : vm = init_vm(stress)
  /\ parser = NoParse
  /\ pc = "idle"
  /\ returned = "none"
  /\ events = <<>>
  /\ calls = 0
  /\ before = NoStep
  /\ snap = [source |-> 0, stack |-> <<>>, frames |-> <<>>, globals |-> init_table, past |-> <<>>]
  /\ heights = NoHeights
  /\ tbl = NoTable
  /\ hashing = NoHash
  /\ unit = NoUnit
  /\ lexing = NoLexing
  /\ conv = NoConv
  /\ writing = NoWriting

Fresh(m) == [m EXCEPT !.error = "", !.called = NoCall, !.halt = ""]

Entered(m) ==
  /\ vm' = m
  /\ pc' = IF m.ub THEN "undefined" ELSE "compiling"

(* interpret up to the first call the compiler makes after init_compiler *)
Interpret(p) ==
  /\ pc = "idle"
  /\ calls < MaxInterpret
  /\ calls > 0 => p \in Again
  /\ Entered(init_compiler([Fresh(vm) EXCEPT !.dispatched = 0], "TYPE_SCRIPT", <<>>))
  /\ parser' = NoParse
  /\ events' = Sources[p]
  /\ calls' = calls + 1
  /\ returned' = "none"
  /\ before' = NoStep
  /\ snap' = [source |-> p, stack |-> vm.stack, frames |-> vm.frames, globals |-> vm.globals,
              past |-> IF calls = 0 THEN <<>>
                       ELSE Append(snap.past, [source |-> snap.source, returned |-> returned])]
  /\ UNCHANGED <<heights, tbl, hashing,
                 unit, lexing, conv, writing>>

Compiling(kind) == pc = "compiling" /\ Len(events) > 0 /\ Head(events).e = kind

Compiled(m, p) ==
  /\ vm' = m
  /\ parser' = p
  /\ pc' = IF m.ub THEN "undefined" ELSE "compiling"
  /\ events' = Tail(events)
  /\ UNCHANGED <<returned, calls, before, snap, heights, tbl, hashing,
                 unit, lexing, conv, writing>>

InitCompiler ==
  /\ Compiling("init")
  /\ Compiled(init_compiler(vm, Head(events).t, Head(events).s), parser)

EmitBytes ==
  /\ Compiling("bytes")
  /\ Compiled(emit_bytes(vm, Head(events).s), parser)

PatchJump ==
  /\ Compiling("patch")
  /\ Compiled(patch_jump(vm, Head(events).s[1], Head(events).s[2], Head(events).s[3]), parser)

(* a step of the compiler that leaves the object it made in parser.value *)
Produced(m) == Compiled(m, [parser EXCEPT !.value = OBJ_VAL(m.ret)])

CopyString ==
  /\ Compiling("str")
  /\ Produced(copy_string(vm, Head(events).s))

NumberLiteral ==
  /\ Compiling("num")
  /\ Compiled(vm, [parser EXCEPT !.value = NUMBER_VAL(Head(events).n)])

MakeConstant ==
  /\ Compiling("const")
  /\ Compiled(make_constant(vm, parser.value), parser)

ErrorAt ==
  /\ Compiling("error")
  /\ Compiled(vm, error_at(parser))

Synchronize ==
  /\ Compiling("sync")
  /\ Compiled(vm, synchronize(parser, Head(events).s))

(* function: arity++ and the check of the parameter limit *)
Arity ==
  /\ Compiling("arity")
  /\ Compiled([vm EXCEPT !.heap[current_function(vm)].arity = @ + 1],
              IF vm.heap[current_function(vm)].arity + 1 > 255 THEN error_at(parser) ELSE parser)

AddLocal ==
  /\ Compiling("local")
  /\ Compiled(add_local(vm), IF LocalsFull(vm) THEN error_at(parser) ELSE parser)

EndScope ==
  /\ Compiling("unlocal")
  /\ Compiled(end_scope(vm), parser)

AddUpvalue ==
  /\ Compiling("upvalue")
  /\ Compiled([vm EXCEPT !.heap[vm.current[Head(events).n + 1].function].upvalue_count = @ + 1],
              parser)

EmitReturn ==
  /\ Compiling("ret")
  /\ Compiled(emit_return(vm), parser)

EndCompiler ==
  /\ Compiling("end")
  /\ Produced(end_compiler(vm))

(* interpret after new_closure: pop the function, push the closure, call it *)
CallScript(m) == call(push(pop(m), OBJ_VAL(m.ret)), m.ret, 0)

Started(m) ==
  /\ vm' = Fresh(m)
  /\ pc' = IF m.ub THEN "undefined" ELSE "running"

(* the return of compile and the rest of interpret up to the call of run *)
FinishCompile ==
  /\ Compiling("done")
  /\ LET function == compile(parser.had_error, AS_OBJ(parser.value))
     IN IF function = 0
        THEN /\ vm' = vm
             /\ pc' = "idle"
             /\ returned' = "INTERPRET_COMPILE_ERROR"
        ELSE /\ Started(CallScript(new_closure(push(vm, OBJ_VAL(function)), function)))
             /\ returned' = returned
  /\ events' = Tail(events)
  /\ UNCHANGED <<parser, calls, before, snap, heights, tbl, hashing,
                 unit, lexing, conv, writing>>

-----------------------------------------------------------------------------
(* run: one action per instruction *)

Opcode(m) == FrameFunction(m).code[Frame(m).ip + 1]

Begin(m) == Skip([Fresh(m) EXCEPT !.dispatched = @ + 1], 1)

Step(op, m) ==
  /\ vm' = m
  /\ pc' = IF m.ub THEN "undefined" ELSE IF m.halt # "" THEN "idle" ELSE "running"
  /\ returned' = IF ~m.ub /\ m.halt # "" THEN m.halt ELSE returned
  /\ before' = [op |-> op, stack |-> vm.stack, frames |-> vm.frames,
                open_upvalues |-> vm.open_upvalues, heap |-> vm.heap,
                births |-> vm.births]
  /\ UNCHANGED <<parser, events, calls, snap, heights, tbl, hashing,
                 unit, lexing, conv, writing>>

Running(op) == pc = "running" /\ Opcode(vm) = op

OpReturn ==
  /\ Running(OP_RETURN)
  /\ Step(OP_RETURN, op_return(Begin(vm)))

OpTrue ==
  /\ Running(OP_TRUE)
  /\ Step(OP_TRUE, push(Begin(vm), BOOL_VAL(TRUE)))

OpFalse ==
  /\ Running(OP_FALSE)
  /\ Step(OP_FALSE, push(Begin(vm), BOOL_VAL(FALSE)))

OpNil ==
  /\ Running(OP_NIL)
  /\ Step(OP_NIL, push(Begin(vm), NIL_VAL))

OpConstant ==
  /\ Running(OP_CONSTANT)
  /\ Step(OP_CONSTANT, op_constant(Begin(vm)))

OpDefineGlobal ==
  /\ Running(OP_DEFINE_GLOBAL)
  /\ Step(OP_DEFINE_GLOBAL, op_define_global(Begin(vm)))

OpGetGlobal ==
  /\ Running(OP_GET_GLOBAL)
  /\ Step(OP_GET_GLOBAL, op_get_global(Begin(vm)))

OpSetGlobal ==
  /\ Running(OP_SET_GLOBAL)
  /\ Step(OP_SET_GLOBAL, op_set_global(Begin(vm)))

OpGetLocal ==
  /\ Running(OP_GET_LOCAL)
  /\ Step(OP_GET_LOCAL, op_get_local(Begin(vm)))

OpSetLocal ==
  /\ Running(OP_SET_LOCAL)
  /\ Step(OP_SET_LOCAL, op_set_local(Begin(vm)))

OpGetUpvalue ==
  /\ Running(OP_GET_UPVALUE)
  /\ Step(OP_GET_UPVALUE, op_get_upvalue(Begin(vm)))

OpSetUpvalue ==
  /\ Running(OP_SET_UPVALUE)
  /\ Step(OP_SET_UPVALUE, op_set_upvalue(Begin(vm)))

OpGetProperty ==
  /\ Running(OP_GET_PROPERTY)
  /\ Step(OP_GET_PROPERTY, op_get_property(Begin(vm)))

OpSetProperty ==
  /\ Running(OP_SET_PROPERTY)
  /\ Step(OP_SET_PROPERTY, op_set_property(Begin(vm)))

OpCloseUpvalue ==
  /\ Running(OP_CLOSE_UPVALUE)
  /\ Step(OP_CLOSE_UPVALUE, op_close_upvalue(Begin(vm)))

OpNot ==
  /\ Running(OP_NOT)
  /\ Step(OP_NOT, op_not(Begin(vm)))

OpNegate ==
  /\ Running(OP_NEGATE)
  /\ Step(OP_NEGATE, op_negate(Begin(vm)))

OpAdd ==
  /\ Running(OP_ADD)
  /\ Step(OP_ADD, op_add(Begin(vm)))

OpSub ==
  /\ Running(OP_SUB)
  /\ Step(OP_SUB, BINARY_OP(Begin(vm), OP_SUB))

OpMul ==
  /\ Running(OP_MUL)
  /\ Step(OP_MUL, BINARY_OP(Begin(vm), OP_MUL))

OpDiv ==
  /\ Running(OP_DIV)
  /\ Step(OP_DIV, BINARY_OP(Begin(vm), OP_DIV))

OpGreater ==
  /\ Running(OP_GREATER)
  /\ Step(OP_GREATER, BINARY_OP(Begin(vm), OP_GREATER))

OpLess ==
  /\ Running(OP_LESS)
  /\ Step(OP_LESS, BINARY_OP(Begin(vm), OP_LESS))

OpEqual ==
  /\ Running(OP_EQUAL)
  /\ Step(OP_EQUAL, op_equal(Begin(vm)))

OpPop ==
  /\ Running(OP_POP)
  /\ Step(OP_POP, pop(Begin(vm)))

OpJump ==
  /\ Running(OP_JUMP)
  /\ Step(OP_JUMP, op_jump(Begin(vm)))

OpJumpIfFalse ==
  /\ Running(OP_JUMP_IF_FALSE)
  /\ Step(OP_JUMP_IF_FALSE, op_jump_if_false(Begin(vm)))

OpLoop ==
  /\ Running(OP_LOOP)
  /\ Step(OP_LOOP, op_loop(Begin(vm)))

OpCall ==
  /\ Running(OP_CALL)
  /\ \E clock \in 0..MaxClock :
       /\ (clock > 0 => ObjType(vm, peek(vm, Byte(Begin(vm), 0))) = "LOX_NATIVE_T")
       /\ Step(OP_CALL, op_call(Begin(vm), clock))

OpClosure ==
  /\ Running(OP_CLOSURE)
  /\ Step(OP_CLOSURE, op_closure(Begin(vm)))

OpClass ==
  /\ Running(OP_CLASS)
  /\ Step(OP_CLASS, op_class(Begin(vm)))

OpMethod ==
  /\ Running(OP_METHOD)
  /\ Step(OP_METHOD, op_method(Begin(vm)))

OpInvoke ==
  /\ Running(OP_INVOKE)
  /\ Step(OP_INVOKE, op_invoke(Begin(vm), 0))

OpInherit ==
  /\ Running(OP_INHERIT)
  /\ Step(OP_INHERIT, op_inherit(Begin(vm)))

OpGetSuper ==
  /\ Running(OP_GET_SUPER)
  /\ Step(OP_GET_SUPER, op_get_super(Begin(vm)))

OpInvokeSuper ==
  /\ Running(OP_INVOKE_SUPER)
  /\ Step(OP_INVOKE_SUPER, op_invoke_super(Begin(vm)))

(* The objects the next instruction dereferences besides its operands in  *)
(* the chunk: the frame's closure and function, and the objects it reaches *)
(* through the stack.                                                      *)
Touched(m) ==
  LET op == Opcode(m)
      at(k) == IF Len(m.stack) > k THEN ValueRefs(peek(m, k)) ELSE {}
      name == ValueRefs(READ_CONSTANT(Skip(m, 1), 0))
  IN {Frame(m).closure, m.heap[Frame(m).closure].function}
       \cup (CASE op \in {OP_GET_PROPERTY, OP_GET_SUPER, OP_INVOKE_SUPER} -> at(0)
               [] op \in {OP_ADD, OP_INHERIT} -> at(0) \cup at(1)
               [] op \in {OP_SET_PROPERTY, OP_METHOD} -> at(1)
               [] op = OP_CALL -> at(Byte(Skip(m, 1), 0))
               [] op = OP_INVOKE -> at(Byte(Skip(m, 1), 1))
               [] op \in {OP_GET_UPVALUE, OP_SET_UPVALUE} ->
                    {FrameUpvalue(m, Byte(Skip(m, 1), 0))}
               [] op \in {OP_DEFINE_GLOBAL, OP_GET_GLOBAL, OP_SET_GLOBAL, OP_CLOSURE, OP_CLASS}
                    -> name
               [] op = OP_RETURN -> {m.open_upvalues[i] : i \in 1..Len(m.open_upvalues)}
               [] OTHER -> {})

(* An instruction that dereferences a released object has no defined       *)
(* behaviour: besides reading the old contents (the instruction's own      *)
(* action) anything may follow.                                            *)
UseAfterFree ==
  /\ pc = "running"
  /\ \E o \in Touched(vm) : ~vm.heap[o].live
  /\ pc' = "undefined"
  /\ UNCHANGED <<vm, parser, returned, events, calls, before, snap, heights, tbl, hashing,
                 unit, lexing, conv, writing>>

(* After undefined behaviour the process ends abnormally or run returns    *)
(* with either result; the machine is not used again.                      *)
Undefined ==
  /\ pc = "undefined"
  /\ \E end \in {"crashed", "INTERPRET_OK", "INTERPRET_RUNTIME_ERROR"} :
       /\ pc' = IF end = "crashed" THEN "crashed" ELSE "lost"
       /\ returned' = IF end = "crashed" THEN returned ELSE end
  /\ UNCHANGED <<vm, parser, events, calls, before, snap, heights, tbl, hashing,
                 unit, lexing, conv, writing>>

Next ==
  \/ \E p \in 1..Len(Sources) : Interpret(p)
  \/ InitCompiler
  \/ EmitBytes
  \/ PatchJump
  \/ CopyString
  \/ NumberLiteral
  \/ MakeConstant
  \/ ErrorAt
  \/ Synchronize
  \/ Arity
  \/ AddLocal
  \/ EndScope
  \/ AddUpvalue
  \/ EmitReturn
  \/ EndCompiler
  \/ FinishCompile
  \/ OpReturn
  \/ OpTrue
  \/ OpFalse
  \/ OpNil
  \/ OpConstant
  \/ OpDefineGlobal
  \/ OpGetGlobal
  \/ OpSetGlobal
  \/ OpGetLocal
  \/ OpSetLocal
  \/ OpGetUpvalue
  \/ OpSetUpvalue
  \/ OpGetProperty
  \/ OpSetProperty
  \/ OpCloseUpvalue
  \/ OpNot
  \/ OpNegate
  \/ OpAdd
  \/ OpSub
  \/ OpMul
  \/ OpDiv
  \/ OpGreater
  \/ OpLess
  \/ OpEqual
  \/ OpPop
  \/ OpJump
  \/ OpJumpIfFalse
  \/ OpLoop
  \/ OpCall
  \/ OpClosure
  \/ OpClass
  \/ OpMethod
  \/ OpInvoke
  \/ OpInherit
  \/ OpGetSuper
  \/ OpInvokeSuper
  \/ UseAfterFree
  \/ Undefined

Spec == Init /\ [][Next]_vars

-----------------------------------------------------------------------------
(* The value stack by its offsets.  The content of the slots has no part   *)
(* in where stack_top goes, so StackSpec runs the instructions that move   *)
(* it on the offsets alone: heights.top is vm.stack_top - vm.stack,        *)
(* heights.frames holds slots - vm.stack and the ip of each active frame.  *)
(* The program is a script and a function f of one shape,                  *)
(*   fun f(a1 .. a_args) { var l1; .. var l_locals;                        *)
(*                         t1 == (.. (t_temps == (deep or f(a1 .. a_args))) ..); }  *)
(* where `deep` is true in frame number `depth`; the script is the body of *)
(* f in a block, which pops its locals at its end.  Every shape obeys the compiler's limit on the locals of one      *)
(* function (add_local).                                                   *)

Shapes ==
  {shape \in [locals : {2, UINT8_MAX - 2, UINT8_MAX - 1}, args : {0, 1}, temps : {0, 1},
              depth : {3, FRAMES_MAX + 1}] :
     /\ 1 + shape.args + shape.locals <= UINT8_MAX
     /\ shape.depth = 3 <=> shape.locals = 2
     /\ shape.temps = 1 => shape.locals = 2}

(* the instruction at ip in the code of the shape *)
Instruction(shape, script, ip) ==
  LET n == shape.locals + shape.temps
      end == n + 5 + shape.args + shape.temps + (IF script THEN shape.locals ELSE 0)
  IN IF ip <= n THEN "push"
     ELSE IF ip = n + 1 THEN "jump"
     ELSE IF ip = n + 2 THEN "pop"
     ELSE IF ip <= n + 3 + shape.args THEN "push"
     ELSE IF ip = n + 4 + shape.args THEN "call"
     ELSE IF ip <= end THEN "pop"
     ELSE IF ip = end + 1 THEN "push"
     ELSE "return"

(* where the jump of `or` lands: behind the call, on the == of the         *)
(* innermost temporary                                                     *)
Landing(shape) == shape.locals + shape.temps + 5 + shape.args

StackFrame(h) == h.frames[Len(h.frames)]

StackAdvance(h) == [h EXCEPT !.frames[Len(h.frames)].ip = @ + 1]

(* push: *vm.stack_top = value; vm.stack_top++.  A store at offset         *)
(* STACK_MAX is past the last element of vm.stack.                         *)
StackPush(h) == [h EXCEPT !.top = @ + 1, !.ub = @ \/ h.top >= STACK_MAX]

(* pop: vm.stack_top-- *)
StackPop(h) == [h EXCEPT !.top = @ - 1, !.ub = @ \/ h.top = 0]

(* reset_stack and the return of INTERPRET_RUNTIME_ERROR *)
StackError(h) == [h EXCEPT !.top = 0, !.frames = <<>>, !.halt = "INTERPRET_RUNTIME_ERROR"]

(* call *)
StackCall(h, arity, arg_count) ==
  IF arg_count # arity THEN StackError(h)
  ELSE IF Len(h.frames) = FRAMES_MAX THEN StackError(h)
  ELSE [h EXCEPT !.frames = Append(@, [slots |-> h.top - arg_count - 1, ip |-> 0])]

(* OP_RETURN *)
StackReturn(h) ==
  IF Len(h.frames) = 1
  THEN [StackPop(StackPop(h)) EXCEPT !.frames = <<>>, !.halt = "INTERPRET_OK"]
  ELSE StackPush([StackPop(h) EXCEPT !.top = StackFrame(h).slots,
                                     !.frames = SubSeq(@, 1, Len(@) - 1)])

StackRunning(kind) ==
  /\ heights.frames # <<>>
  /\ ~heights.ub
  /\ Instruction(heights.shape, Len(heights.frames) = 1, StackFrame(heights).ip) = kind

StackStep(h) ==
  /\ heights' = h
  /\ UNCHANGED <<vm, parser, pc, returned, events, calls, before, snap, tbl, hashing,
                 unit, lexing, conv, writing>>

(* interpret after compile: push, pop, push, call(closure, 0) *)
StackInterpret(shape) ==
  /\ heights = NoHeights
  /\ StackStep(StackCall(StackPush(StackPop(StackPush([heights EXCEPT !.shape = shape]))), 0, 0))

(* OP_NIL, OP_GET_GLOBAL, OP_GET_LOCAL, OP_CONSTANT *)
StackOpPush ==
  /\ StackRunning("push")
  /\ StackStep(StackPush(StackAdvance(heights)))

(* OP_POP, OP_EQUAL *)
StackOpPop ==
  /\ StackRunning("pop")
  /\ StackStep(StackPop(StackAdvance(heights)))

(* OP_JUMP_IF_FALSE, OP_JUMP of `or`: `deep` is true in the deepest frame   *)
(* of the shape and stays on the stack as the value of the expression      *)
StackOpJump ==
  /\ StackRunning("jump")
  /\ StackStep(IF Len(heights.frames) >= heights.shape.depth
               THEN [heights EXCEPT !.frames[Len(heights.frames)].ip = Landing(heights.shape)]
               ELSE StackAdvance(heights))

StackOpCall ==
  /\ StackRunning("call")
  /\ StackStep(StackCall(StackAdvance(heights), heights.shape.args, heights.shape.args))

StackOpReturn ==
  /\ StackRunning("return")
  /\ StackStep(StackReturn(heights))

StackInit ==
  /\ vm = ZeroedVM(FALSE)
  /\ parser = NoParse
  /\ pc = "idle"
  /\ returned = "none"
  /\ events = <<>>
  /\ calls = 0
  /\ before = NoStep
  /\ snap = [source |-> 0, stack |-> <<>>, frames |-> <<>>, globals |-> init_table, past |-> <<>>]
  /\ heights = NoHeights
  /\ tbl = NoTable
  /\ hashing = NoHash
  /\ unit = NoUnit
  /\ lexing = NoLexing
  /\ conv = NoConv
  /\ writing = NoWriting

StackNext ==
  \/ \E shape \in Shapes : StackInterpret(shape)
  \/ StackOpPush
  \/ StackOpPop
  \/ StackOpJump
  \/ StackOpCall
  \/ StackOpReturn

StackSpec == StackInit /\ [][StackNext]_vars

-----------------------------------------------------------------------------
(* What the last instruction read: `before` holds the stack and the frames *)
(* as they were when it was dispatched.                                    *)
-----------------------------------------------------------------------------
(* object.c: hash_string.  A uint32_t is held as the pair <<high, low>> of *)
(* its 16-bit halves, so that no intermediate result needs more than 31    *)
(* bits; a char is held as its value as uint8_t.                           *)

Half == 2 ^ 16

Word(n) == <<n \div Half, n % Half>>

RECURSIVE Xor(_, _)
Xor(a, b) ==
  IF a = 0 THEN b
  ELSE IF b = 0 THEN a
  ELSE 2 * Xor(a \div 2, b \div 2) + ((a + b) % 2)

(* hash ^= (uint8_t)key[i] *)
XorByte(hash, byte) == <<hash[1], Xor(hash[2], byte)>>

(* hash *= n on uint32_t: the product modulo 2^32 *)
MulWord(hash, n) ==
  <<(hash[1] * (n % Half) + hash[2] * (n \div Half) + (hash[2] * (n % Half)) \div Half) % Half,
    (hash[2] * (n % Half)) % Half>>

FNV_OFFSET_BASIS == 216613626

FNV_PRIME == 16777619

(* one turn of the loop of hash_string *)
HashTurn(hash, byte) == MulWord(XorByte(hash, byte), FNV_PRIME)

RECURSIVE HashLoop(_, _, _, _)
HashLoop(key, length, i, hash) ==
  IF i < length THEN HashLoop(key, length, i + 1, HashTurn(hash, key[i + 1])) ELSE hash

hash_string(key, length) == HashLoop(key, length, 0, Word(FNV_OFFSET_BASIS))

(* hash_string run turn by turn on the byte strings of up to MaxHashLen    *)
(* bytes over HashBytes ('a', 'k', and two chars that are negative where   *)
(* char is signed)                                                         *)
MaxHashLen == 3

HashBytes == {97, 107, 128, 255}

RECURSIVE ByteStrings(_)
ByteStrings(n) ==
  IF n = 0 THEN {<<>>}
  ELSE ByteStrings(n - 1) \cup {Append(s, b) : s \in ByteStrings(n - 1), b \in HashBytes}

HashInit ==
  /\ vm = ZeroedVM(FALSE)
  /\ parser = NoParse
  /\ pc = "idle"
  /\ returned = "none"
  /\ events = <<>>
  /\ calls = 0
  /\ before = NoStep
  /\ snap = [source |-> 0, stack |-> <<>>, frames |-> <<>>, globals |-> init_table, past |-> <<>>]
  /\ heights = NoHeights
  /\ tbl = NoTable
  /\ unit = NoUnit
  /\ lexing = NoLexing
  /\ conv = NoConv
  /\ writing = NoWriting
  /\ \E key \in ByteStrings(MaxHashLen) :
       hashing = [key |-> key, length |-> Len(key), i |-> 0, hash |-> Word(FNV_OFFSET_BASIS),
                  at |-> "loop"]

HashStep(h) ==
  /\ hashing' = h
  /\ UNCHANGED <<vm, parser, pc, returned, events, calls, before, snap, heights, tbl,
                 unit, lexing, conv, writing>>

(* the body of the for loop *)
HashByte ==
  /\ hashing.at = "loop"
  /\ hashing.i < hashing.length
  /\ HashStep([hashing EXCEPT !.hash = HashTurn(@, hashing.key[hashing.i + 1]), !.i = @ + 1])

(* return hash, which allocate_string stores in string->hash *)
HashReturn ==
  /\ hashing.at = "loop"
  /\ hashing.i >= hashing.length
  /\ HashStep([hashing EXCEPT !.at = "stored"])

HashNext ==
  \/ HashByte
  \/ HashReturn

HashSpec == HashInit /\ [][HashNext]_vars
-----------------------------------------------------------------------------
(* table.c on the entries array.  A table is count, capacity and entries,  *)
(* entries[index + 1] being the C entries[index]; a key is the position of *)
(* its LoxString in TableKeys (NULL is 0), so that two keys are the same   *)
(* pointer exactly when they are the same number.  `stuck` records a probe *)
(* loop that never returns, `ub` a probe started on the NULL entries of a  *)
(* table of capacity 0; a call leaves in `last` what it returned.          *)

NULL == 0

(* the strings of run_table_tests ("key", "key_2") and one-letter strings  *)
(* whose hashes share their low bits: modulo 8 "key", "a", "i" fall on 1,  *)
(* "key_2" on 0, "g" on 7; modulo 16 "i" falls on 9, "key_2" on 8          *)
TableChars == <<<<107, 101, 121>>, <<107, 101, 121, 95, 50>>, <<97>>, <<103>>, <<105>>, <<108>>>>

(* new_string: length strlen(chars), hash hash_string(chars, length) *)
TableKeys ==
  [k \in 1..Len(TableChars) |->
     [chars |-> TableChars[k], length |-> Len(TableChars[k]),
      hash |-> hash_string(TableChars[k], Len(TableChars[k]))]]

TableValues == {NIL_VAL, NUMBER_VAL(2)}

RECURSIVE BitAnd(_, _)
BitAnd(a, b) ==
  IF a = 0 \/ b = 0 THEN 0 ELSE 2 * BitAnd(a \div 2, b \div 2) + (a % 2) * (b % 2)

(* MOD_CAPACITY for LOX_TABLE_GROW_FACTOR == 2: (val) & (capacity - 1), on *)
(* a uint32_t val and a capacity of at most 2^16, which the high half of   *)
(* val cannot reach                                                        *)
MOD_CAPACITY(val, capacity) == BitAnd(val[2], capacity - 1)

STUCK == -1

NO_TOMBSTONE == -2

(* the for (;;) of find_entry, from `index` on, `turns` turns made.  Once  *)
(* capacity turns have been made without a return the loop has seen every  *)
(* slot it can reach and none of them ends it: it runs for ever.           *)
RECURSIVE FindEntryLoop(_, _, _, _, _, _)
FindEntryLoop(entries, capacity, key, index, tombstone, turns) ==
  LET entry == entries[index + 1]
      next == MOD_CAPACITY(Word(index + 1), capacity)
  IN IF turns = capacity THEN STUCK
     ELSE IF entry.key = NULL
     THEN IF IS_NIL(entry.value)
          THEN (IF tombstone # NO_TOMBSTONE THEN tombstone ELSE index)
          ELSE FindEntryLoop(entries, capacity, key, next,
                             IF tombstone = NO_TOMBSTONE THEN index ELSE tombstone, turns + 1)
     ELSE IF entry.key = key THEN index
     ELSE FindEntryLoop(entries, capacity, key, next, tombstone, turns + 1)
(* a find_entry that returns the first tombstone it meets *)
RECURSIVE FindEntryEager(_, _, _, _, _)
FindEntryEager(entries, capacity, key, index, turns) ==
  IF turns = capacity THEN STUCK
  ELSE IF entries[index + 1].key \in {NULL, key} THEN index
  ELSE FindEntryEager(entries, capacity, key, MOD_CAPACITY(Word(index + 1), capacity),
                      turns + 1)

find_entry_eager(entries, capacity, key) ==
  FindEntryEager(entries, capacity, key, MOD_CAPACITY(TableKeys[key].hash, capacity), 0)

(* the index of the entry find_entry returns, or STUCK *)
find_entry(entries, capacity, key) ==
  FindEntryLoop(entries, capacity, key, MOD_CAPACITY(TableKeys[key].hash, capacity),
                NO_TOMBSTONE, 0)

EmptySlots(capacity) == [i \in 1..capacity |-> [key |-> NULL, value |-> NIL_VAL]]

(* the second loop of adjust_capacity, from old index i on *)
RECURSIVE ReinsertLoop(_, _, _, _)
ReinsertLoop(old, fresh, i, count) ==
  IF i > Len(old) THEN [entries |-> fresh, count |-> count, stuck |-> FALSE]
  ELSE IF old[i].key = NULL THEN ReinsertLoop(old, fresh, i + 1, count)
  ELSE IF find_entry(fresh, Len(fresh), old[i].key) = STUCK
  THEN [entries |-> fresh, count |-> count, stuck |-> TRUE]
  ELSE ReinsertLoop(old,
                    [fresh EXCEPT ![find_entry(fresh, Len(fresh), old[i].key) + 1] = old[i]],
                    i + 1, count + 1)

Adjusted(t, capacity, moved) ==
  [t EXCEPT !.entries = moved.entries, !.count = moved.count, !.capacity = capacity,
            !.stuck = @ \/ moved.stuck]

slot_adjust_capacity(t, capacity) ==
  Adjusted(t, capacity, ReinsertLoop(t.entries, EmptySlots(capacity), 1, 0))

slot_init_table(t) == [t EXCEPT !.count = 0, !.capacity = 0, !.entries = <<>>]

(* what a call left in its out parameter and returned *)
Returned(t, op, key, value, ret, found) ==
  [t EXCEPT !.last = [op |-> op, key |-> key, value |-> value, ret |-> ret, found |-> found]]

(* a call whose probe does not return, or runs on entries == NULL *)
Lost(t, op, key, value) ==
  [Returned(t, op, key, value, FALSE, 0) EXCEPT !.stuck = t.capacity # 0, !.ub = t.capacity = 0]

slot_table_get(t, key) ==
  IF t.count = 0 THEN Returned(t, "table_get", key, NIL_VAL, FALSE, 0)
  ELSE IF t.capacity = 0 \/ find_entry(t.entries, t.capacity, key) = STUCK
  THEN Lost(t, "table_get", key, NIL_VAL)
  ELSE IF t.entries[find_entry(t.entries, t.capacity, key) + 1].key = NULL
  THEN Returned(t, "table_get", key, NIL_VAL, FALSE, 0)
  ELSE Returned(t, "table_get", key,
                t.entries[find_entry(t.entries, t.capacity, key) + 1].value, TRUE, 0)
(* a table_set that counts every new key, on a tombstone too *)
StoreEntryCounting(t, entry, key, value) ==
  IF t.stuck \/ entry = STUCK THEN Lost(t, "table_set", key, value)
  ELSE Returned([t EXCEPT !.count = IF t.entries[entry + 1].key = NULL THEN @ + 1 ELSE @,
                          !.entries[entry + 1] = [key |-> key, value |-> value]],
                "table_set", key, value, t.entries[entry + 1].key = NULL, 0)

(* a table_set that returns true only for a key stored in an empty slot *)
StoreEntryFresh(t, entry, key, value) ==
  IF t.stuck \/ entry = STUCK THEN Lost(t, "table_set", key, value)
  ELSE Returned([t EXCEPT !.count = IF t.entries[entry + 1].key = NULL
                                       /\ IS_NIL(t.entries[entry + 1].value)
                                    THEN @ + 1 ELSE @,
                          !.entries[entry + 1] = [key |-> key, value |-> value]],
                "table_set", key, value,
                t.entries[entry + 1].key = NULL /\ IS_NIL(t.entries[entry + 1].value), 0)

(* table_set from find_entry on, entry the index it returned *)
StoreEntry(t, entry, key, value) ==
  IF t.stuck THEN Lost(t, "table_set", key, value)
  ELSE IF entry = STUCK THEN Lost(t, "table_set", key, value)
  ELSE Returned([t EXCEPT !.count = IF t.entries[entry + 1].key = NULL
                                       /\ IS_NIL(t.entries[entry + 1].value)
                                    THEN @ + 1 ELSE @,
                          !.entries[entry + 1] = [key |-> key, value |-> value]],
                "table_set", key, value, t.entries[entry + 1].key = NULL, 0)

(* table_set after the test of the load *)
SetIn(t, key, value) ==
  IF t.stuck \/ t.capacity = 0 THEN Lost(t, "table_set", key, value)
  ELSE StoreEntry(t, find_entry(t.entries, t.capacity, key), key, value)

(* (double)(count + 1) > (double)capacity * TABLE_MAX_LOAD, with 0.75 = 3/4 *)
OverLoad(t) == 4 * (t.count + 1) > 3 * t.capacity

slot_table_set(t, key, value) ==
  SetIn(IF OverLoad(t)
        THEN slot_adjust_capacity(t, GROW_TABLE_CAPACITY(t.capacity))
        ELSE t,
        key, value)
(* a table_delete that empties the entry instead of leaving a tombstone *)
BuryEmpty(t, entry, key) ==
  IF entry = STUCK THEN Lost(t, "table_delete", key, NIL_VAL)
  ELSE IF t.entries[entry + 1].key = NULL
  THEN Returned(t, "table_delete", key, NIL_VAL, FALSE, 0)
  ELSE Returned([t EXCEPT !.entries[entry + 1] = [key |-> NULL, value |-> NIL_VAL]],
                "table_delete", key, NIL_VAL, TRUE, 0)

(* table_delete from find_entry on *)
Bury(t, entry, key) ==
  IF entry = STUCK THEN Lost(t, "table_delete", key, NIL_VAL)
  ELSE IF t.entries[entry + 1].key = NULL
  THEN Returned(t, "table_delete", key, NIL_VAL, FALSE, 0)
  ELSE Returned([t EXCEPT !.entries[entry + 1] = [key |-> NULL, value |-> BOOL_VAL(TRUE)]],
                "table_delete", key, NIL_VAL, TRUE, 0)

slot_table_delete(t, key) ==
  IF t.count = 0 THEN Returned(t, "table_delete", key, NIL_VAL, FALSE, 0)
  ELSE IF t.capacity = 0 THEN Lost(t, "table_delete", key, NIL_VAL)
  ELSE Bury(t, find_entry(t.entries, t.capacity, key), key)

(* the for (;;) of table_find_string; the key found, NULL, or STUCK *)
RECURSIVE FindStringLoop(_, _, _, _, _, _, _)
FindStringLoop(entries, capacity, chars, length, hash, index, turns) ==
  LET entry == entries[index + 1]
      next == MOD_CAPACITY(Word(index + 1), capacity)
  IN IF turns = capacity THEN STUCK
     ELSE IF entry.key = NULL
     THEN IF IS_NIL(entry.value) THEN NULL
          ELSE FindStringLoop(entries, capacity, chars, length, hash, next, turns + 1)
     ELSE IF /\ TableKeys[entry.key].length = length
             /\ TableKeys[entry.key].hash = hash
             /\ TableKeys[entry.key].chars = chars
     THEN entry.key
     ELSE FindStringLoop(entries, capacity, chars, length, hash, next, turns + 1)

FoundString(t, found) ==
  IF found = STUCK THEN Lost(t, "table_find_string", 0, NIL_VAL)
  ELSE Returned(t, "table_find_string", 0, NIL_VAL, found # NULL, found)

slot_table_find_string(t, chars, length, hash) ==
  IF t.count = 0 THEN Returned(t, "table_find_string", 0, NIL_VAL, FALSE, NULL)
  ELSE IF t.capacity = 0 THEN Lost(t, "table_find_string", 0, NIL_VAL)
  ELSE FoundString(t, FindStringLoop(t.entries, t.capacity, chars, length, hash,
                                     MOD_CAPACITY(hash, t.capacity), 0))

(* table_remove_white from index i on; marked are the keys with is_marked *)
RECURSIVE RemoveWhiteLoop(_, _, _)
RemoveWhiteLoop(t, marked, i) ==
  IF i > t.capacity \/ t.stuck \/ t.ub THEN t
  ELSE IF t.entries[i].key # NULL /\ t.entries[i].key \notin marked
  THEN RemoveWhiteLoop(slot_table_delete(t, t.entries[i].key), marked, i + 1)
  ELSE RemoveWhiteLoop(t, marked, i + 1)

slot_table_remove_white(t, marked) ==
  [RemoveWhiteLoop(t, marked, 1) EXCEPT !.last = [NoCallYet EXCEPT !.op = "table_remove_white"]]

(* table_add_all from index i of `from` on *)
RECURSIVE AddAllLoop(_, _, _)
AddAllLoop(from, to, i) ==
  IF i > from.capacity \/ to.stuck \/ to.ub THEN to
  ELSE IF from.entries[i].key # NULL
  THEN AddAllLoop(from, slot_table_set(to, from.entries[i].key, from.entries[i].value), i + 1)
  ELSE AddAllLoop(from, to, i + 1)

slot_table_add_all(from, to) ==
  [AddAllLoop(from, to, 1) EXCEPT !.last = [NoCallYet EXCEPT !.op = "table_add_all"]]

(* run_table_tests, generalised: any sequence of calls on one table, the   *)
(* keys and values drawn from TableKeys and TableValues                    *)
TableInit ==
  /\ vm = ZeroedVM(FALSE)
  /\ parser = NoParse
  /\ pc = "idle"
  /\ returned = "none"
  /\ events = <<>>
  /\ calls = 0
  /\ before = NoStep
  /\ snap = [source |-> 0, stack |-> <<>>, frames |-> <<>>, globals |-> init_table, past |-> <<>>]
  /\ heights = NoHeights
  /\ tbl = NoTable
  /\ hashing = NoHash
  /\ unit = NoUnit
  /\ lexing = NoLexing
  /\ conv = NoConv
  /\ writing = NoWriting

(* a call made on the table; what it returned is not kept *)
TableStep(t) ==
  /\ ~tbl.stuck
  /\ ~tbl.ub
  /\ tbl' = [t EXCEPT !.last = NoCallYet]
  /\ UNCHANGED <<vm, parser, pc, returned, events, calls, before, snap, heights, hashing,
                 unit, lexing, conv, writing>>

TableGet(key) == TableStep(slot_table_get(tbl, key))

TableSet(key, value) == TableStep(slot_table_set(tbl, key, value))

TableDelete(key) == TableStep(slot_table_delete(tbl, key))

TableFindString(key) ==
  TableStep(slot_table_find_string(tbl, TableKeys[key].chars, TableKeys[key].length,
                                   TableKeys[key].hash))

(* the pruning of a collection that marked the strings of `marked` *)
MarkSets == {{}, {1, 3, 5}, {2, 4, 6}, {1, 2}}

TableRemoveWhite(marked) == TableStep(slot_table_remove_white(tbl, marked))

(* the table copied into a new table, which takes its place *)
TableAddAll == TableStep(slot_table_add_all(tbl, slot_init_table(tbl)))

TableNext ==
  \/ \E key \in DOMAIN TableKeys : TableGet(key)
  \/ \E key \in DOMAIN TableKeys : \E value \in TableValues : TableSet(key, value)
  \/ \E key \in DOMAIN TableKeys : TableDelete(key)
  \/ \E key \in DOMAIN TableKeys : TableFindString(key)
  \/ \E marked \in MarkSets : TableRemoveWhite(marked)
  \/ TableAddAll

TableSpec == TableInit /\ [][TableNext]_vars

BeforeFrame == before.frames[Len(before.frames)]

BeforeFunction == vm.heap[vm.heap[BeforeFrame.closure].function]

BeforeOperand(k) == BeforeFunction.code[BeforeFrame.ip + 2 + k]

BeforeConstant(k) == BeforeFunction.constants[BeforeOperand(k) + 1]

BeforePeek(distance) == before.stack[Len(before.stack) - distance]

(* the last instruction was op and it ran to its end *)
After(op) == before.op = op /\ ~vm.ub

(* the index in Sources of a source *)
SourceIndex(source) == CHOOSE i \in 1..Len(Sources) : Sources[i] = source

(* the value of the global variable with these characters *)
Global(chars) == table_get(vm.globals, table_find_string(vm, chars))

-----------------------------------------------------------------------------
(* C1: whenever runtime_error has been called while running bytecode, the  *)
(* run is over: no instruction can be dispatched (interpret has returned), *)
(* the result is INTERPRET_RUNTIME_ERROR, and the stack is reset (no       *)
(* values, no frames).                                                     *)
C1_RuntimeErrorEndsRun ==
  vm.error # "" =>
    /\ pc = "idle"
    /\ returned = "INTERPRET_RUNTIME_ERROR"
    /\ vm.stack = <<>>
    /\ vm.frames = <<>>

(* C2: as long as no undefined behaviour has been executed, every object   *)
(* reachable from the roots (stack, frame closures, open upvalues,         *)
(* globals, init_string, the compilers' functions) is in the object list   *)
(* and has not been freed.                                                 *)
C2_ReachableObjectsSurvive ==
  pc \in {"idle", "compiling", "running"} =>
    \A o \in Reachable(vm.heap, Roots(vm), Roots(vm)) :
      vm.heap[o].live /\ o \in Listed(vm)

-----------------------------------------------------------------------------
(* The run of a source, given first to a fresh machine, ended normally *)
Finished(source) ==
  /\ pc = "idle"
  /\ calls = 1
  /\ snap.source = SourceIndex(source)
  /\ returned = "INTERPRET_OK"

Upvalues(m) == {o \in 1..Len(m.heap) : m.heap[o].type = "LOX_UPVALUE_T"}

Closures(m) == {o \in 1..Len(m.heap) : m.heap[o].type = "LOX_CLOSURE_T"}

(* what *upvalue->location is *)
UpvalueValue(m, upvalue) ==
  IF m.heap[upvalue].location = CLOSED
  THEN m.heap[upvalue].closed
  ELSE m.stack[m.heap[upvalue].location + 1]

(* the upvalue the last OP_GET_UPVALUE or OP_SET_UPVALUE named *)
BeforeUpvalue == vm.heap[BeforeFrame.closure].upvalues[BeforeOperand(0) + 1]

(* C3: a local variable of one frame activation (a stack slot, known by    *)
(* the time it was pushed) has at most one Upvalue object, so all closures *)
(* capturing it hold the same one; an open upvalue points at its variable; *)
(* OP_GET_UPVALUE reads and OP_SET_UPVALUE writes the upvalue's variable,  *)
(* OP_SET_LOCAL is seen through the open upvalues of the slot; and the     *)
(* closure source reads, before and after the frame returned, what was     *)
(* written through the other closure.                                      *)
C3_SharedUpvalue ==
  ~vm.ub =>
    /\ \A u, v \in Upvalues(vm) : vm.heap[u].origin = vm.heap[v].origin => u = v
    /\ \A i \in 1..Len(vm.open_upvalues) :
         LET u == vm.heap[vm.open_upvalues[i]]
         IN /\ u.location # CLOSED
            /\ u.location < Len(vm.stack)
            /\ vm.births[u.location + 1] = u.origin
            /\ i > 1 => vm.heap[vm.open_upvalues[i - 1]].location > u.location
    /\ After(OP_GET_UPVALUE) => peek(vm, 0) = UpvalueValue(vm, BeforeUpvalue)
    /\ After(OP_SET_UPVALUE) => UpvalueValue(vm, BeforeUpvalue) = peek(vm, 0)
    /\ After(OP_SET_LOCAL) =>
         \A u \in Upvalues(vm) :
           vm.heap[u].location = BeforeFrame.slots + BeforeOperand(0)
             => UpvalueValue(vm, u) = peek(vm, 0)
    /\ Finished(Source_closure) =>
         /\ Global(Chars(<<"r", "1">>)) = NUMBER_VAL(2)
         /\ Global(Chars(<<"r", "2">>)) = NUMBER_VAL(3)
         /\ Global(Chars(<<"r", "3">>)) = NUMBER_VAL(5)
         /\ Global(Chars(<<"r", "4">>)) = NUMBER_VAL(13)
         /\ Global(Chars(<<"r", "5">>)) = NUMBER_VAL(3)

(* C3 witness: a value written through one closure is read through another *)
(* closure holding the same, already closed, upvalue.                      *)
C3_Witness ==
  /\ After(OP_GET_UPVALUE)
  /\ vm.heap[BeforeUpvalue].location = CLOSED
  /\ peek(vm, 0) = NUMBER_VAL(5)
  /\ \E c \in Closures(vm) :
       /\ c # BeforeFrame.closure
       /\ \E i \in 1..Len(vm.heap[c].upvalues) : vm.heap[c].upvalues[i] = BeforeUpvalue

LiveStrings(m) == {o \in Listed(m) : m.heap[o].live /\ m.heap[o].type = "LOX_STRING_T"}

(* C4: no two live strings have the same characters, and OP_EQUAL on two   *)
(* strings pushes true exactly when their characters are equal.            *)
C4_Interned ==
  ~vm.ub =>
    /\ \A a, b \in LiveStrings(vm) : vm.heap[a].chars = vm.heap[b].chars => a = b
    /\ (After(OP_EQUAL) /\ IS_STRING(vm, BeforePeek(0)) /\ IS_STRING(vm, BeforePeek(1))) =>
         peek(vm, 0) = BOOL_VAL(vm.heap[AS_OBJ(BeforePeek(0))].chars
                                  = vm.heap[AS_OBJ(BeforePeek(1))].chars)

(* C4 witness: a concatenation result compared with an equal literal *)
C4_Witness ==
  /\ After(OP_EQUAL)
  /\ snap.source = SourceIndex(Source_strings)
  /\ IS_STRING(vm, BeforePeek(0))
  /\ vm.heap[AS_OBJ(BeforePeek(0))].chars = Chars(<<"x", "y">>)
  /\ BeforePeek(0) = BeforePeek(1)
  /\ peek(vm, 0) = BOOL_VAL(TRUE)

(* the arity of the function call was last entered with *)
CalledArity == vm.heap[vm.heap[vm.called.closure].function].arity

(* C5 as stated: frame_count <= 64, a closure call at 64 frames fails with *)
(* "Stack overflow.", and one at a smaller depth with matching arity       *)
(* pushes one frame with slots = stack_top - arg_count - 1.                *)
C5_Stated ==
  ~vm.ub =>
    /\ Len(vm.frames) <= FRAMES_MAX
    /\ (vm.called.closure # 0 /\ vm.called.frame_count = FRAMES_MAX) =>
         vm.error = "Stack overflow." /\ vm.frames = <<>>
    /\ (vm.called.closure # 0 /\ vm.called.frame_count < FRAMES_MAX
          /\ vm.called.arg_count = CalledArity) =>
         /\ Len(vm.frames) = vm.called.frame_count + 1
         /\ Frame(vm).slots = vm.called.stack_top - vm.called.arg_count - 1

(* C5 amended: frame_count <= 64; call with arg_count equal to the arity   *)
(* fails with "Stack overflow." and pushes no frame at 64 frames, and at a *)
(* smaller depth pushes exactly one frame, for that closure, at ip 0, with *)
(* slots = stack_top - arg_count - 1.                                      *)
C5_FrameLimit ==
  ~vm.ub =>
    /\ Len(vm.frames) <= FRAMES_MAX
    /\ (vm.called.closure # 0 /\ vm.called.arg_count = CalledArity) =>
         IF vm.called.frame_count = FRAMES_MAX
         THEN vm.error = "Stack overflow." /\ vm.frames = <<>> /\ ~vm.ok
         ELSE /\ Len(vm.frames) = vm.called.frame_count + 1
              /\ Frame(vm).closure = vm.called.closure
              /\ Frame(vm).ip = 0
              /\ Frame(vm).slots = vm.called.stack_top - vm.called.arg_count - 1
              /\ vm.error = ""

(* C5 witness: a call with matching arity at 64 frames *)
C5_Witness ==
  /\ vm.called.closure # 0
  /\ vm.called.arg_count = CalledArity
  /\ vm.called.frame_count = FRAMES_MAX
  /\ vm.error = "Stack overflow."

(* the callee of the last OP_CALL and its argument count *)
BeforeCallee == BeforePeek(BeforeOperand(0))

HasInit(klass) == table_has(vm.heap[klass].methods, vm.init_string)

(* C6: OP_CALL on a class without `init`: with no arguments the callee     *)
(* slot holds a new instance of the class and no frame is pushed; with     *)
(* arguments the call fails and interpret returns INTERPRET_RUNTIME_ERROR. *)
C6_ClassWithoutInit ==
  (before.op = OP_CALL /\ IS_CLASS(vm, BeforeCallee) /\ ~HasInit(AS_OBJ(BeforeCallee))) =>
    IF BeforeOperand(0) = 0
    THEN /\ ~vm.ub
         /\ vm.error = ""
         /\ Len(vm.frames) = Len(before.frames)
         /\ Len(vm.stack) = Len(before.stack)
         /\ IS_INSTANCE(vm, peek(vm, 0))
         /\ vm.heap[AS_OBJ(peek(vm, 0))].klass = AS_OBJ(BeforeCallee)
         /\ AS_OBJ(peek(vm, 0)) = Len(vm.heap)
    ELSE /\ vm.error # ""
         /\ ~vm.ok
         /\ pc = "idle"
         /\ returned = "INTERPRET_RUNTIME_ERROR"

InitOf(klass) == AS_OBJ(table_get(vm.heap[klass].methods, vm.init_string))

(* C7: OP_CALL with k arguments on a class with `init`: when k is not the  *)
(* initializer's arity the run ends with the arity error; otherwise (below *)
(* 64 frames) a frame for the init closure is pushed, its slot 0 holds the *)
(* new instance and the k arguments are unchanged above it.  When a frame  *)
(* pushed for an initializer returns, the callee and its arguments are     *)
(* replaced by that instance.                                              *)
C7_Initializer ==
  ~vm.ub =>
    /\ (After(OP_CALL) /\ IS_CLASS(vm, BeforeCallee) /\ HasInit(AS_OBJ(BeforeCallee))
          /\ Len(before.frames) < FRAMES_MAX) =>
         LET k == BeforeOperand(0)
             init == InitOf(AS_OBJ(BeforeCallee))
         IN IF k # vm.heap[vm.heap[init].function].arity
            THEN /\ vm.error = "Expected %d arguments but got %d."
                 /\ pc = "idle"
                 /\ returned = "INTERPRET_RUNTIME_ERROR"
            ELSE /\ Len(vm.frames) = Len(before.frames) + 1
                 /\ Frame(vm).closure = init
                 /\ Frame(vm).ip = 0
                 /\ Frame(vm).slots = Len(vm.stack) - k - 1
                 /\ Len(vm.stack) = Len(before.stack)
                 /\ vm.stack[Frame(vm).slots + 1] = OBJ_VAL(Len(vm.heap))
                 /\ IS_INSTANCE(vm, vm.stack[Frame(vm).slots + 1])
                 /\ vm.heap[Len(vm.heap)].klass = AS_OBJ(BeforeCallee)
                 /\ Frame(vm).init_of = Len(vm.heap)
                 /\ \A i \in 1..k :
                      vm.stack[Len(vm.stack) - k + i] = before.stack[Len(before.stack) - k + i]
    /\ (After(OP_RETURN) /\ BeforeFrame.init_of # 0) =>
         /\ Len(vm.frames) = Len(before.frames) - 1
         /\ vm.stack = Append(SubSeq(before.stack, 1, BeforeFrame.slots),
                              OBJ_VAL(BeforeFrame.init_of))

(* C7 witness: an initializer left by a bare `return;` before its end *)
C7_Witness ==
  /\ After(OP_RETURN)
  /\ BeforeFrame.init_of # 0
  /\ BeforeFrame.ip + 1 < Len(BeforeFunction.code)
  /\ peek(vm, 0) = OBJ_VAL(BeforeFrame.init_of)
  /\ IS_INSTANCE(vm, peek(vm, 0))

Classes(m) == {o \in Listed(m) : m.heap[o].live /\ m.heap[o].type = "LOX_CLASS_T"}

Method(klass, name) == AS_OBJ(vm.heap[klass].methods.entries[name])

(* the receiver of the last OP_INVOKE *)
BeforeReceiver == BeforePeek(BeforeOperand(1))

BeforeHome == vm.heap[BeforeFrame.closure].home

BeforeThis == before.stack[BeforeFrame.slots + 1]

(* C9: in a method declared in B with superclass A, a successful           *)
(* OP_INVOKE_SUPER pushes a frame for the closure A's table holds for the  *)
(* name, with slot 0 holding the method's `this`; a successful             *)
(* OP_GET_SUPER pushes a bound method of that closure and `this`; and a    *)
(* successful OP_INVOKE on `this` runs the closure of the table of the     *)
(* receiver's own class.                                                   *)
C9_Super ==
  ~vm.ub =>
    /\ (After(OP_INVOKE_SUPER) /\ vm.error = "" /\ BeforeHome # 0) =>
         /\ vm.heap[BeforeHome].super # 0
         /\ AS_OBJ(BeforePeek(0)) = vm.heap[BeforeHome].super
         /\ Len(vm.frames) = Len(before.frames) + 1
         /\ Frame(vm).closure = Method(vm.heap[BeforeHome].super, AS_OBJ(BeforeConstant(0)))
         /\ vm.stack[Frame(vm).slots + 1] = BeforeThis
    /\ (After(OP_GET_SUPER) /\ vm.error = "" /\ BeforeHome # 0) =>
         /\ ObjType(vm, peek(vm, 0)) = "LOX_BOUND_METHOD_T"
         /\ vm.heap[AS_OBJ(peek(vm, 0))].method
              = Method(vm.heap[BeforeHome].super, AS_OBJ(BeforeConstant(0)))
         /\ vm.heap[AS_OBJ(peek(vm, 0))].receiver = BeforeThis
    /\ (After(OP_INVOKE) /\ vm.error = "" /\ BeforeHome # 0
          /\ BeforeReceiver = BeforeThis /\ IS_INSTANCE(vm, BeforeThis)
          /\ ~table_has(vm.heap[AS_OBJ(BeforeThis)].fields, AS_OBJ(BeforeConstant(0)))) =>
         /\ Frame(vm).closure
              = Method(vm.heap[AS_OBJ(BeforeThis)].klass, AS_OBJ(BeforeConstant(0)))
         /\ vm.stack[Frame(vm).slots + 1] = BeforeThis

(* C9 witness: super.m() in a method of B, on an instance of a subclass of *)
(* B that overrides m.                                                     *)
C9_Witness ==
  /\ After(OP_INVOKE_SUPER)
  /\ vm.error = ""
  /\ BeforeHome # 0
  /\ IS_INSTANCE(vm, BeforeThis)
  /\ vm.heap[AS_OBJ(BeforeThis)].klass # BeforeHome
  /\ vm.heap[vm.heap[AS_OBJ(BeforeThis)].klass].super = BeforeHome
  /\ Method(vm.heap[AS_OBJ(BeforeThis)].klass, AS_OBJ(BeforeConstant(0)))
       # Frame(vm).closure
  /\ vm.heap[Frame(vm).closure].home = vm.heap[BeforeHome].super

(* C10: once the compiler has reported an error and compile has returned,  *)
(* interpret has returned INTERPRET_COMPILE_ERROR, no instruction was      *)
(* dispatched, and the stack, the frames and the globals are those of      *)
(* before the call.                                                        *)
C10_CompileError ==
  (parser.had_error /\ pc # "compiling") =>
    /\ pc = "idle"
    /\ returned = "INTERPRET_COMPILE_ERROR"
    /\ vm.dispatched = 0
    /\ vm.stack = snap.stack
    /\ vm.frames = snap.frames
    /\ vm.globals = snap.globals

(* C10 witness: a source with errors given to a machine that has already   *)
(* run a program defining globals.                                         *)
C10_Witness ==
  /\ parser.had_error
  /\ pc = "idle"
  /\ calls = 2
  /\ returned = "INTERPRET_COMPILE_ERROR"
  /\ Cardinality(Keys(vm.globals)) > 3

-----------------------------------------------------------------------------
(* a call of interpret that has returned, with the calls made before it    *)
Session(source, result) ==
  /\ pc = "idle"
  /\ snap.source = SourceIndex(source)
  /\ returned = result

Earlier(source, result) ==
  \E i \in 1..Len(snap.past) :
    /\ snap.past[i].source = SourceIndex(source)
    /\ snap.past[i].returned = result

(* the last instruction wrote the global named by its operand *)
WroteGlobal(key) ==
  /\ before.op \in {OP_DEFINE_GLOBAL, OP_SET_GLOBAL}
  /\ BeforeConstant(0) = OBJ_VAL(key)

(* C11: a global defined by one interpret call stays defined, with its     *)
(* value, in every later interpret call on the same machine: no step of    *)
(* interpret removes a key of vm.globals, and only OP_DEFINE_GLOBAL and    *)
(* OP_SET_GLOBAL on that name change its value, also across calls that     *)
(* ended with a compile error or a runtime error.  A source that calls a   *)
(* function and reads a string defined by an earlier call gets the         *)
(* function's result and the interned string.                              *)
C11_GlobalsPersist ==
  [][~vm'.ub =>
       /\ \A key \in Keys(vm.globals) :
            /\ table_has(vm'.globals, key)
            /\ table_get(vm'.globals, key) # table_get(vm.globals, key) => WroteGlobal(key)'
       /\ (Session(Source_session_use, returned) /\ Earlier(Source_session_define, "INTERPRET_OK"))' =>
            /\ returned' = "INTERPRET_OK"
            /\ Global(Chars(<<"g", "o", "t">>))' = NUMBER_VAL(4)
            /\ Global(Chars(<<"s", "a", "m", "e">>))' = BOOL_VAL(TRUE)]_vars

(* C11 witness: a function and a string defined by the first call, a       *)
(* runtime error in the second, both used by the third.                    *)
C11_Witness ==
  /\ Session(Source_session_use, "INTERPRET_OK")
  /\ calls = 3
  /\ snap.past[1] = [source |-> SourceIndex(Source_session_define), returned |-> "INTERPRET_OK"]
  /\ snap.past[2].returned = "INTERPRET_RUNTIME_ERROR"
  /\ Global(Chars(<<"g", "o", "t">>)) = NUMBER_VAL(4)

-----------------------------------------------------------------------------
(* the compiler is about to declare the local of parameter number k of the *)
(* function it compiles: arity has been incremented to k and the k - 1     *)
(* parameters before it are the locals after slot 0                        *)
DeclaringParameter(k) ==
  /\ Compiling("local")
  /\ vm.heap[current_function(vm)].arity = k
  /\ vm.current[1].local_count = k

CountingParameter(k) ==
  /\ Compiling("arity")
  /\ vm.heap[current_function(vm)].arity = k - 1

(* C12: a function or method may declare up to 255 parameters: counting    *)
(* and declaring parameter k <= 255 reports no error and leaves a function *)
(* of arity k with a local for the parameter, and counting a 256th         *)
(* parameter is an error.                                                  *)
C12_Parameters ==
  [][/\ \A k \in 1..255 :
          /\ CountingParameter(k) =>
               /\ parser' = parser
               /\ vm'.heap[current_function(vm)].arity = k
          /\ DeclaringParameter(k) =>
               /\ parser' = parser
               /\ vm'.heap[current_function(vm)].arity = k
               /\ vm'.current[1].local_count = k + 1
     /\ CountingParameter(256) => parser'.had_error]_vars

-----------------------------------------------------------------------------
(* C13: collect_garbage is never entered while a collection is in          *)
(* progress: vm.reentered records an entry made with vm.collecting > 0,    *)
(* that is from a reallocate called by the sweep of a running collection,  *)
(* and no collection is left unfinished between two steps.                 *)
C13_NoNestedCollection ==
  /\ ~vm.reentered
  /\ ~vm.ub => vm.collecting = 0

-----------------------------------------------------------------------------
(* C14: stack_top stays inside the value stack, 0 <= stack_top - stack <=  *)
(* STACK_MAX, and no push writes past the last slot, for every program     *)
(* that compiles: for the shapes of StackSpec, with up to 64 frames of up  *)
(* to 255 slots plus temporaries and arguments.                            *)
C14_StackBounds ==
  /\ heights.top >= 0
  /\ heights.top <= STACK_MAX
  /\ ~heights.ub

-----------------------------------------------------------------------------
(* the upvalues a program can still use that have not been closed *)
OpenUpvalues(m) ==
  {u \in Reachable(m.heap, Roots(m), Roots(m)) :
     /\ m.heap[u].type = "LOX_UPVALUE_T"
     /\ m.heap[u].live
     /\ m.heap[u].location # CLOSED}

(* C15: across the interpret calls of a machine, every upvalue that is     *)
(* still open refers to a live slot: one below stack_top and at or above   *)
(* the slots of an active frame.                                           *)
C15_OpenUpvaluesLive ==
  pc \in {"idle", "compiling", "running"} =>
    \A u \in OpenUpvalues(vm) :
      /\ vm.heap[u].location < Len(vm.stack)
      /\ \E i \in 1..Len(vm.frames) : vm.frames[i].slots <= vm.heap[u].location

-----------------------------------------------------------------------------
(* the slot of the upvalue at position i of the open list *)
OpenSlot(m, i) == m.heap[m.open_upvalues[i]].location

(* the upvalues OP_CLOSURE has just captured from the frame's locals: the  *)
(* operand pairs with is_local = 1, by their position in the new closure   *)
Captured == {i \in 1..Len(vm.heap[AS_OBJ(peek(vm, 0))].upvalues) : BeforeOperand(2 * i - 1) = 1}

CapturedSlot(i) == BeforeFrame.slots + BeforeOperand(2 * i)

CapturedUpvalue(i) == vm.heap[AS_OBJ(peek(vm, 0))].upvalues[i]

(* the open upvalues the list had for a slot before the instruction *)
OpenBefore(slot) ==
  {before.open_upvalues[j] : j \in {k \in 1..Len(before.open_upvalues) :
                                     before.heap[before.open_upvalues[k]].location = slot}}

(* C16: the open-upvalue list is strictly decreasing in slot from head to  *)
(* tail, so no two of its upvalues refer to the same slot, and             *)
(* capture_upvalue (in OP_CLOSURE) returns the open upvalue the list       *)
(* already has for the slot when there is one and otherwise a new upvalue  *)
(* for that slot, which it inserts into the list without removing any.     *)
C16_OpenListSorted ==
  ~vm.ub =>
    /\ \A i, j \in 1..Len(vm.open_upvalues) : i < j => OpenSlot(vm, i) > OpenSlot(vm, j)
    /\ \A i \in 1..Len(vm.open_upvalues) : OpenSlot(vm, i) # CLOSED
    /\ After(OP_CLOSURE) =>
         /\ \A i \in Captured :
              /\ vm.heap[CapturedUpvalue(i)].location = CapturedSlot(i)
              /\ \E j \in 1..Len(vm.open_upvalues) : vm.open_upvalues[j] = CapturedUpvalue(i)
              /\ OpenBefore(CapturedSlot(i)) # {} => CapturedUpvalue(i) \in OpenBefore(CapturedSlot(i))
              /\ OpenBefore(CapturedSlot(i)) = {} => CapturedUpvalue(i) > Len(before.heap)
         /\ \A j \in 1..Len(before.open_upvalues) :
              \E k \in 1..Len(vm.open_upvalues) : vm.open_upvalues[k] = before.open_upvalues[j]
         /\ Len(vm.open_upvalues) =
              Len(before.open_upvalues)
                + Cardinality({i \in Captured : OpenBefore(CapturedSlot(i)) = {}})

(* C16 witness: one OP_CLOSURE has captured a slot that already had an     *)
(* open upvalue and a lower slot that had none, whose new upvalue is       *)
(* behind the head of the list.                                            *)
C16_Witness ==
  /\ After(OP_CLOSURE)
  /\ \E i, j \in Captured :
       /\ OpenBefore(CapturedSlot(i)) # {}
       /\ OpenBefore(CapturedSlot(j)) = {}
       /\ vm.open_upvalues[1] # CapturedUpvalue(j)

-----------------------------------------------------------------------------
(* the step is an instruction that calls close_upvalues(last) and runs to  *)
(* its end: OP_CLOSE_UPVALUE with stack_top - 1, OP_RETURN with the slots  *)
(* of its frame                                                            *)
Closing(last) ==
  /\ pc = "running"
  /\ pc' # "undefined"
  /\ \/ Opcode(vm) = OP_CLOSE_UPVALUE /\ last = Len(vm.stack) - 1
     \/ Opcode(vm) = OP_RETURN /\ last = Frame(vm).slots

InOpenList(m, upvalue) == \E i \in 1..Len(m.open_upvalues) : m.open_upvalues[i] = upvalue

-----------------------------------------------------------------------------
(* C18: when a collection completes, the object list holds exactly the     *)
(* objects that were reachable from the roots when it started, and every   *)
(* object of the list has is_marked = false (vm.exact and vm.unmarked hold *)
(* that for every collection completed so far; the gray worklist is empty  *)
(* by the exit condition of trace_references).                             *)
C18_CollectionExact ==
  /\ vm.exact
  /\ vm.unmarked

-----------------------------------------------------------------------------
(* C19: after every collection the strings table has an entry for exactly  *)
(* the strings that had one and survived: no entry refers to a freed       *)
(* string, no survivor has lost its entry (vm.interned holds that for      *)
(* every collection completed so far), and an entry does not keep its      *)
(* string alive: between two steps every key of the table is allocated.    *)
C19_InternedAfterCollection ==
  /\ vm.interned
  /\ pc \in {"idle", "compiling", "running"} =>
       \A key \in Keys(vm.strings) : vm.heap[key].live /\ key \in Listed(vm)

-----------------------------------------------------------------------------
(* C20: whenever interpret has returned, with any of its three results,    *)
(* the value stack is empty, frame_count is 0 and the open-upvalue list is *)
(* empty, so that the next call starts from a clean stack.                 *)
C20_CleanOnReturn ==
  (pc = "idle" /\ returned # "none") =>
    /\ returned \in {"INTERPRET_OK", "INTERPRET_COMPILE_ERROR", "INTERPRET_RUNTIME_ERROR"}
    /\ vm.stack = <<>>
    /\ vm.frames = <<>>
    /\ vm.open_upvalues = <<>>
    /\ snap.stack = <<>>
    /\ snap.frames = <<>>

(* C20 witness: the third call of a session has returned with a runtime    *)
(* error raised with values on the stack, after a call that returned       *)
(* INTERPRET_OK and one that returned INTERPRET_COMPILE_ERROR.             *)
C20_Witness ==
  /\ pc = "idle"
  /\ calls = 3
  /\ snap.past[1].returned = "INTERPRET_OK"
  /\ snap.past[2].returned = "INTERPRET_COMPILE_ERROR"
  /\ returned = "INTERPRET_RUNTIME_ERROR"
  /\ Len(before.stack) > 1
  /\ vm.stack = <<>>

-----------------------------------------------------------------------------
(* OP_INVOKE against OP_GET_PROPERTY followed by OP_CALL.  The operands of *)
(* OP_INVOKE are the name constant and the argument count, so the same     *)
(* bytes serve the pair: OP_GET_PROPERTY reads the name, OP_CALL the count.*)

RECURSIVE PushAll(_, _)
PushAll(m, values) ==
  IF values = <<>> THEN m ELSE PushAll(push(m, Head(values)), Tail(values))

(* OP_CALL once the property is on the stack and the arguments are above it *)
CallGot(got, args, clock) ==
  IF got.halt # "" \/ got.ub THEN got ELSE op_call(PushAll(got, args), clock)

(* the property looked up on the receiver before the arguments are pushed *)
GetThenCall(m, arg_count, clock) ==
  CallGot(op_get_property(popn(m, arg_count)),
          SubSeq(m.stack, Len(m.stack) - arg_count + 1, Len(m.stack)), clock)

SameOutcome(a, b) ==
  /\ a.stack = b.stack
  /\ a.frames = b.frames
  /\ a.halt = b.halt
  /\ a.ub = b.ub
  /\ (a.error = "") = (b.error = "")

BoundMethods(m) == {o \in 1..Len(m.heap) : m.heap[o].type = "LOX_BOUND_METHOD_T"}

(* C21: in every state about to run OP_INVOKE, the instruction leaves the  *)
(* stack, the frames and the outcome (running on, or a runtime error) that *)
(* OP_GET_PROPERTY followed by OP_CALL with the same name and argument     *)
(* count leave, and it allocates no bound method.                          *)
C21_InvokeEquivalence ==
  Running(OP_INVOKE) =>
    /\ SameOutcome(op_invoke(Begin(vm), 0), GetThenCall(Begin(vm), Byte(Begin(vm), 1), 0))
    /\ BoundMethods(op_invoke(Begin(vm), 0)) = BoundMethods(vm)

(* C21 witness: OP_INVOKE with two arguments has entered a method of the   *)
(* receiver's class, the receiver in slot 0 of the new frame, where the    *)
(* pair of instructions would have allocated a bound method.               *)
C21_Witness ==
  /\ After(OP_INVOKE)
  /\ Len(vm.frames) = Len(before.frames) + 1
  /\ vm.called.arg_count = 2
  /\ IS_INSTANCE(vm, BeforeReceiver)
  /\ ~table_has(vm.heap[AS_OBJ(BeforeReceiver)].fields, AS_OBJ(BeforeConstant(0)))
  /\ vm.frames[Len(vm.frames)].closure =
       Method(vm.heap[AS_OBJ(BeforeReceiver)].klass, AS_OBJ(BeforeConstant(0)))
  /\ Len(vm.heap) = Len(before.heap)
  /\ vm.stack = before.stack

-----------------------------------------------------------------------------
(* the upvalues of the frame the last instruction ran in, before it: the   *)
(* open upvalues that captured a slot of the frame's window, the very slot *)
(* that was there (an upvalue left open by an earlier interpret call       *)
(* refers to a slot of a stack that is gone)                               *)
FrameUpvalues ==
  {u \in 1..Len(before.heap) :
     /\ before.heap[u].type = "LOX_UPVALUE_T"
     /\ before.heap[u].live
     /\ before.heap[u].location # CLOSED
     /\ before.heap[u].location >= BeforeFrame.slots
     /\ before.heap[u].location < Len(before.stack)
     /\ before.births[before.heap[u].location + 1] = before.heap[u].origin}

(* the caller's ip is just after an OP_CALL, OP_INVOKE or OP_INVOKE_SUPER *)
AfterCall(frame) ==
  LET code == vm.heap[vm.heap[frame.closure].function].code
  IN \/ frame.ip >= 2 /\ code[frame.ip - 1] = OP_CALL
     \/ frame.ip >= 3 /\ code[frame.ip - 2] \in {OP_INVOKE, OP_INVOKE_SUPER}

-----------------------------------------------------------------------------
(* the other globals are as they were *)
OthersKept(old, new, name) ==
  /\ Keys(new) \ {name} = Keys(old) \ {name}
  /\ \A key \in Keys(old) \ {name} :
       table_has(new, key) /\ table_get(new, key) = table_get(old, key)

(* C23: OP_SET_GLOBAL on a name that is not defined is a runtime error     *)
(* that leaves the name undefined and every other global as it was; on a   *)
(* defined name it replaces the value with the value on top of the stack   *)
(* and leaves the stack, that value on top, unchanged.  OP_GET_GLOBAL on a *)
(* name that is not defined is a runtime error, so a read of the name      *)
(* after the failed assignment fails.                                      *)
C23_SetGlobal ==
  /\ [][(Running(OP_SET_GLOBAL) /\ pc' # "undefined") =>
          IF ~table_has(vm.globals, READ_STRING(Begin(vm), 0))
          THEN /\ returned' = "INTERPRET_RUNTIME_ERROR"
               /\ pc' = "idle"
               /\ vm'.errors = vm.errors + 1
               /\ ~table_has(vm'.globals, READ_STRING(Begin(vm), 0))
               /\ op_get_global([Begin(vm) EXCEPT !.globals = vm'.globals]).halt = "INTERPRET_RUNTIME_ERROR"
               /\ OthersKept(vm.globals, vm'.globals, READ_STRING(Begin(vm), 0))
          ELSE /\ pc' = "running"
               /\ vm'.errors = vm.errors
               /\ table_has(vm'.globals, READ_STRING(Begin(vm), 0))
               /\ table_get(vm'.globals, READ_STRING(Begin(vm), 0)) = peek(vm, 0)
               /\ vm'.stack = vm.stack
               /\ OthersKept(vm.globals, vm'.globals, READ_STRING(Begin(vm), 0))]_vars
  /\ [](Running(OP_GET_GLOBAL) /\ ~table_has(vm.globals, READ_STRING(Begin(vm), 0)) =>
          op_get_global(Begin(vm)).halt = "INTERPRET_RUNTIME_ERROR")

(* C23 witness: an interpret call assigned to y, which was not defined,    *)
(* and returned a runtime error; the next call on the machine read y and   *)
(* returned a runtime error too, the globals x, clock, print and println   *)
(* defined.                                                                *)
C23_Witness ==
  /\ Session(Source_undefined_get, "INTERPRET_RUNTIME_ERROR")
  /\ calls = 2
  /\ snap.past[1] = [source |-> SourceIndex(Source_undefined_set),
                     returned |-> "INTERPRET_RUNTIME_ERROR"]
  /\ before.op = OP_GET_GLOBAL
  /\ ~table_has(vm.globals, AS_OBJ(BeforeConstant(0)))
  /\ vm.heap[AS_OBJ(BeforeConstant(0))].chars = Chars(<<"y">>)
  /\ vm.globals.tombs # {}
  /\ Global(Chars(<<"x">>)) = NUMBER_VAL(1)
  /\ Cardinality(Keys(vm.globals)) = 4

-----------------------------------------------------------------------------
(* 32-bit FNV-1a: from the offset basis 2166136261 = 33052 * 2^16 + 40389, *)
(* for each byte xor it in, then multiply by the prime 16777619, all       *)
(* modulo 2^32                                                             *)
RECURSIVE Fnv1a(_, _)
Fnv1a(bytes, hash) ==
  IF bytes = <<>> THEN hash
  ELSE Fnv1a(Tail(bytes), MulWord(<<hash[1], Xor(hash[2], Head(bytes))>>, 16777619))

(* C30: the hash stored in a String is the 32-bit FNV-1a hash of its bytes *)
(* (offset basis 2166136261, prime 16777619, xor before multiply, modulo   *)
(* 2^32).                                                                  *)
C30_Fnv1a ==
  hashing.at = "stored" => hashing.hash = Fnv1a(hashing.key, <<33052, 40389>>)

-----------------------------------------------------------------------------
(* The entries of a table: the indices that hold a live key, a tombstone,  *)
(* nothing.                                                                *)
LiveSlots(t) == {i \in 1..Len(t.entries) : t.entries[i].key # NULL}

Tombstones(t) ==
  {i \in 1..Len(t.entries) : t.entries[i].key = NULL /\ ~IS_NIL(t.entries[i].value)}

EmptySlotsOf(t) ==
  {i \in 1..Len(t.entries) : t.entries[i].key = NULL /\ IS_NIL(t.entries[i].value)}

LiveKeys(t) == {t.entries[i].key : i \in LiveSlots(t)}

(* 0, or 8 doubled some number of times *)
IsTableCapacity(capacity) ==
  capacity = 0 \/ \E n \in 0..12 : capacity = LOX_INITIAL_ALLOC_SIZE * 2 ^ n

(* C24: after any sequence of calls the capacity of a table is 0 or        *)
(* 8 * 2^n, its entries array has capacity entries, and count is at most   *)
(* three quarters of the capacity, count being the entries that are not    *)
(* empty: an allocated array has at least one empty slot that is not a     *)
(* tombstone.                                                              *)
C24_Load ==
  /\ IsTableCapacity(tbl.capacity)
  /\ Len(tbl.entries) = tbl.capacity
  /\ 4 * tbl.count <= 3 * tbl.capacity
  /\ 4 * Cardinality(LiveSlots(tbl) \cup Tombstones(tbl)) <= 3 * tbl.capacity
  /\ tbl.capacity > 0 => EmptySlotsOf(tbl) # {}

(* C24 witness: a table of capacity 8 at its full load of 6, one of the 6  *)
(* a tombstone; the next table_set of a new key doubles the capacity.      *)
C24_Witness ==
  /\ tbl.capacity = LOX_INITIAL_ALLOC_SIZE
  /\ tbl.count = 6
  /\ Tombstones(tbl) # {}
  /\ \E key \in DOMAIN TableKeys :
       /\ key \notin LiveKeys(tbl)
       /\ slot_table_set(tbl, key, NIL_VAL).capacity = 2 * LOX_INITIAL_ALLOC_SIZE
       /\ slot_table_set(tbl, key, NIL_VAL).count = 6

-----------------------------------------------------------------------------
(* the number of entries the probe of find_entry reads for a key *)
RECURSIVE ProbeLength(_, _, _, _)
ProbeLength(t, key, index, turns) ==
  IF turns = t.capacity THEN turns
  ELSE IF t.entries[index + 1].key = key THEN turns + 1
  ELSE IF t.entries[index + 1].key = NULL /\ IS_NIL(t.entries[index + 1].value) THEN turns + 1
  ELSE ProbeLength(t, key, MOD_CAPACITY(Word(index + 1), t.capacity), turns + 1)

Probed(t, key) == ProbeLength(t, key, MOD_CAPACITY(TableKeys[key].hash, t.capacity), 0)

(* C25: after any sequence of table_set, table_delete and prunings (and    *)
(* copies), no call has been left in a probe loop that does not return,    *)
(* and none of the calls that can be made next is: the loop of find_entry  *)
(* (table_get, table_set, table_delete) and the loop of table_find_string  *)
(* return for every key, and no probe is started on a table without        *)
(* entries.                                                                *)
C25_ProbesTerminate ==
  /\ ~tbl.stuck
  /\ ~tbl.ub
  /\ \A key \in DOMAIN TableKeys :
       /\ tbl.capacity > 0 => find_entry(tbl.entries, tbl.capacity, key) # STUCK
       /\ ~slot_table_get(tbl, key).stuck /\ ~slot_table_get(tbl, key).ub
       /\ ~slot_table_delete(tbl, key).stuck /\ ~slot_table_delete(tbl, key).ub
       /\ \A value \in TableValues :
            ~slot_table_set(tbl, key, value).stuck /\ ~slot_table_set(tbl, key, value).ub
       /\ ~slot_table_find_string(tbl, TableKeys[key].chars, TableKeys[key].length,
                                  TableKeys[key].hash).stuck
       /\ ~slot_table_find_string(tbl, TableKeys[key].chars, TableKeys[key].length,
                                  TableKeys[key].hash).ub
  /\ \A marked \in MarkSets :
       ~slot_table_remove_white(tbl, marked).stuck /\ ~slot_table_remove_white(tbl, marked).ub

(* C25 witness: the probe for "g", which was deleted, starts on its        *)
(* tombstone in the last entry of the array, wraps to entry 0 and reads    *)
(* seven entries, five of them live keys, before the empty one ends it.    *)
C25_Witness ==
  /\ tbl.capacity = LOX_INITIAL_ALLOC_SIZE
  /\ 4 \notin LiveKeys(tbl)
  /\ LOX_INITIAL_ALLOC_SIZE \in Tombstones(tbl)
  /\ Cardinality(LiveKeys(tbl)) = 5
  /\ Probed(tbl, 4) = 7
  /\ find_entry(tbl.entries, tbl.capacity, 4) = LOX_INITIAL_ALLOC_SIZE - 1
  /\ ~slot_table_get(tbl, 4).last.ret

-----------------------------------------------------------------------------
(* what table_get answers for a key: whether it is there, and its value *)
Answered(last) == [ret |-> last.ret, value |-> last.value]

Answer(t, key) == Answered(slot_table_get(t, key).last)

(* after the call that made `after` of `t`, every key but `key` is found   *)
(* or not found as it was, with the value it had                           *)
OthersAnswer(t, after, key) ==
  \A other \in DOMAIN TableKeys \ {key} : Answer(after, other) = Answer(t, other)

(* no key is stored in two entries *)
StoredOnce(t) ==
  \A i, j \in LiveSlots(t) : t.entries[i].key = t.entries[j].key => i = j

(* table_set(t, key, value) checked on the table it leaves *)
SetThenGet(t, after, key, value) ==
  /\ Answer(after, key) = [ret |-> TRUE, value |-> value]
  /\ OthersAnswer(t, after, key)
  /\ StoredOnce(after)
  /\ LiveKeys(after) = LiveKeys(t) \cup {key}

(* C26: for every table reached, every key and every value, after          *)
(* table_set(t, key, value) table_get(t, key) returns true with that       *)
(* value and table_get of every other key returns what it returned before, *)
(* also when the call grew the table; and no key is stored in two entries. *)
C26_SetThenGet ==
  /\ StoredOnce(tbl)
  /\ \A key \in DOMAIN TableKeys : \A value \in TableValues :
       SetThenGet(tbl, slot_table_set(tbl, key, value), key, value)

(* C26 witness: a table_set has grown the table to capacity 16 and every   *)
(* key is found there, "a" with the value 2, where a probe for it passes   *)
(* the entry of another key; setting "a" to nil is then answered by nil.   *)
C26_Witness ==
  /\ tbl.capacity = 2 * LOX_INITIAL_ALLOC_SIZE
  /\ LiveKeys(tbl) = DOMAIN TableKeys
  /\ Answer(tbl, 3) = [ret |-> TRUE, value |-> NUMBER_VAL(2)]
  /\ Probed(tbl, 3) > 1
  /\ Answer(slot_table_set(tbl, 3, NIL_VAL), 3) = [ret |-> TRUE, value |-> NIL_VAL]

-----------------------------------------------------------------------------
(* the key table_find_string returns for the bytes of a key, NULL if none *)
FindString(t, key) ==
  slot_table_find_string(t, TableKeys[key].chars, TableKeys[key].length,
                         TableKeys[key].hash).last.found

(* table_delete(t, key) checked on what it returns and the table it leaves *)
DeleteThenGet(t, after, key) ==
  /\ after.last.ret = (key \in LiveKeys(t))
  /\ ~Answer(after, key).ret
  /\ FindString(after, key) = NULL
  /\ OthersAnswer(t, after, key)
  /\ \A other \in DOMAIN TableKeys \ {key} :
       /\ FindString(after, other) = FindString(t, other)
       /\ FindString(after, other) = IF other \in LiveKeys(t) THEN other ELSE NULL
  /\ LiveKeys(after) = LiveKeys(t) \ {key}

(* a live key whose probe passes entry i before it reaches the key *)
ProbesThrough(t, i) ==
  {key \in LiveKeys(t) :
     \E turns \in 1..t.capacity - 1 :
       /\ turns < Probed(t, key)
       /\ MOD_CAPACITY(Word(MOD_CAPACITY(TableKeys[key].hash, t.capacity) + turns - 1),
                       t.capacity) = i - 1}

(* C27: for every table reached and every key, table_delete(t, key)        *)
(* returns true exactly when the key had a live entry; afterwards          *)
(* table_get(t, key) returns false and table_find_string finds no string   *)
(* with the key's bytes, while every other key, those whose probe passes   *)
(* the entry of the deleted key included, is found by both as before.      *)
C27_DeleteThenGet ==
  \A key \in DOMAIN TableKeys : DeleteThenGet(tbl, slot_table_delete(tbl, key), key)

(* C27 witness: "key" has been deleted from the entry its hash selects,    *)
(* and "a" and "i", whose probes start on that entry, are found past the   *)
(* tombstone; deleting "key" again returns false.                          *)
C27_Witness ==
  /\ tbl.capacity = LOX_INITIAL_ALLOC_SIZE
  /\ 1 \notin LiveKeys(tbl)
  /\ 2 \in Tombstones(tbl)
  /\ {3, 5} \subseteq ProbesThrough(tbl, 2)
  /\ FindString(tbl, 3) = 3
  /\ Answer(tbl, 5).ret
  /\ FindString(tbl, 1) = NULL
  /\ ~slot_table_delete(tbl, 1).last.ret
  /\ slot_table_delete(tbl, 3).last.ret

-----------------------------------------------------------------------------
(* the entry table_set would store the key in, as find_entry returns it *)
Target(t, key) == find_entry(t.entries, t.capacity, key) + 1

(* table_set(t, key, value) checked on count *)
SetCounts(t, after, key) ==
  IF OverLoad(t)
  THEN /\ after.capacity = GROW_TABLE_CAPACITY(t.capacity)
       /\ Tombstones(after) = {}
       /\ after.count = Cardinality(LiveKeys(t) \cup {key})
  ELSE /\ after.capacity = t.capacity
       /\ after.count = IF Target(t, key) \in EmptySlotsOf(t) THEN t.count + 1 ELSE t.count
       /\ Target(t, key) \in Tombstones(t) =>
            /\ key \notin LiveKeys(t)
            /\ Tombstones(after) = Tombstones(t) \ {Target(t, key)}

(* C28: in every table reached count is the number of entries that hold a  *)
(* live key or a tombstone.  table_delete leaves count unchanged; a        *)
(* table_set that stores a new key in a tombstone leaves it unchanged, one *)
(* that stores it in an empty entry adds one, one that overwrites leaves   *)
(* it unchanged; a table_set that grows the table drops the tombstones and *)
(* leaves the number of live keys in count.                                *)
C28_Count ==
  /\ tbl.count = Cardinality(LiveSlots(tbl)) + Cardinality(Tombstones(tbl))
  /\ \A key \in DOMAIN TableKeys :
       /\ slot_table_delete(tbl, key).count = tbl.count
       /\ slot_table_delete(tbl, key).capacity = tbl.capacity
       /\ \A value \in TableValues : SetCounts(tbl, slot_table_set(tbl, key, value), key)

(* C28 witness: a table with count 5 made of three live keys and two       *)
(* tombstones, in which a table_set of a key that is not there lands on a  *)
(* tombstone and leaves count at 5, and of another lands on an empty entry *)
(* and makes it 6; the table_set after that, at load 6, grows the table to  *)
(* 16 entries and leaves the 4 live keys in count.                         *)
C28_Witness ==
  /\ tbl.count = 5
  /\ Cardinality(LiveSlots(tbl)) = 3
  /\ Cardinality(Tombstones(tbl)) = 2
  /\ \E key \in DOMAIN TableKeys \ LiveKeys(tbl) :
       /\ Target(tbl, key) \in Tombstones(tbl)
       /\ slot_table_set(tbl, key, NIL_VAL).count = 5
  /\ \E key \in DOMAIN TableKeys \ LiveKeys(tbl) :
       /\ Target(tbl, key) \in EmptySlotsOf(tbl)
       /\ slot_table_set(tbl, key, NIL_VAL).count = 6
       /\ slot_table_set(slot_table_set(tbl, key, NIL_VAL), key, NIL_VAL).count = 4
       /\ slot_table_set(slot_table_set(tbl, key, NIL_VAL), key, NIL_VAL).capacity =
            2 * LOX_INITIAL_ALLOC_SIZE

-----------------------------------------------------------------------------
(* C29: for every table reached, every key and every value, table_set      *)
(* returns true exactly when the key had no live entry before the call,    *)
(* whether it is stored in an empty entry, in a tombstone or in a table    *)
(* the call has just grown, and false when it overwrote the value of a     *)
(* live entry.                                                             *)
C29_SetReturns ==
  \A key \in DOMAIN TableKeys : \A value \in TableValues :
    /\ slot_table_set(tbl, key, value).last.ret = (key \notin LiveKeys(tbl))
    /\ slot_table_set(tbl, key, value).last.ret = ~Answer(tbl, key).ret
    /\ ~slot_table_set(slot_table_set(tbl, key, value), key, value).last.ret

(* C29 witness: "key" was set and deleted, as in run_table_tests: its      *)
(* tombstone is the entry a new table_set of it would use, which returns   *)
(* true; a table_set of "key_2", which is live, returns false.             *)
C29_Witness ==
  /\ 1 \notin LiveKeys(tbl)
  /\ 2 \in LiveKeys(tbl)
  /\ tbl.count = 2
  /\ Target(tbl, 1) \in Tombstones(tbl)
  /\ slot_table_set(tbl, 1, NUMBER_VAL(2)).last.ret
  /\ slot_table_set(tbl, 1, NUMBER_VAL(2)).count = 2
  /\ ~slot_table_set(tbl, 2, NUMBER_VAL(2)).last.ret

-----------------------------------------------------------------------------
(* The blocks an object holds through reallocate, with the sizes their     *)
(* allocation added: the object itself (ALLOCATE_OBJ) and its arrays       *)
BlockBytes(object) ==
  CASE object.type = "LOX_BOUND_METHOD_T" -> SizeofLoxBoundMethod
    [] object.type = "LOX_CLASS_T" -> SizeofLoxClass + SizeofEntry * object.methods.capacity
    [] object.type = "LOX_CLOSURE_T" ->
         SizeofLoxClosure + SizeofPointer * object.upvalue_count
    [] object.type = "LOX_FUNCTION_T" ->
         SizeofLoxFunction + object.capacity + SizeofLineNumber * object.capacity
           + SizeofValue * object.constants_capacity
    [] object.type = "LOX_INSTANCE_T" ->
         SizeofLoxInstance + SizeofEntry * object.fields.capacity
    [] object.type = "LOX_STRING_T" -> SizeofLoxString + object.length + 1
    [] object.type = "LOX_NATIVE_T" -> SizeofLoxNative
    [] object.type = "LOX_UPVALUE_T" -> SizeofLoxUpvalue

RECURSIVE HeapBytes(_, _)
HeapBytes(heap, n) ==
  IF n = 0 THEN 0
  ELSE HeapBytes(heap, n - 1) + (IF heap[n].live THEN BlockBytes(heap[n]) ELSE 0)

(* the sum of the sizes of the blocks currently allocated *)
AllocatedBytes(m) ==
  HeapBytes(m.heap, Len(m.heap)) + SizeofEntry * (m.strings.capacity + m.globals.capacity)

(* C31: between two steps, as long as no undefined behaviour has been      *)
(* executed, bytes_allocated equals the sum of the sizes of the blocks     *)
(* currently allocated through reallocate: every free subtracts the size   *)
(* its allocation added, for every object type.                            *)
C31_BytesAllocated ==
  (pc \in {"idle", "compiling", "running"} /\ ~vm.ub) =>
    vm.bytes_allocated = AllocatedBytes(vm)

-----------------------------------------------------------------------------
(* compiler.c on the syntax tree of a program.  The functions of the       *)
(* compiler are applied to the tree of the source instead of its tokens:   *)
(* where the C code looks at the next token, the operator looks at the     *)
(* node.  An expression is <<"true">>, <<"false">>, <<"nil">>,             *)
(* <<"number", n>>, <<"string", s>>, <<"variable", name>>,                 *)
(* <<"assign", name, e>>, <<"call", e, args>>, <<"and", a, b>> or          *)
(* <<"or", a, b>>; a declaration                                           *)
(* is <<"expression", e>>, <<"var", name, <<e>>>>, <<"block", decls>>,     *)
(* <<"if", e, s, <<s>>>>, <<"while", e, s>>, <<"for", <<d>>, <<e>>, <<e>>, *)
(* s>>, <<"fun", name, params, decls>> or <<"return", <<e>>>>, where <<>>  *)
(* stands for a part that is left out.                                     *)
(*                                                                         *)
(* The state c of the compiler: current is the chain of Compiler structs,  *)
(* innermost first (current[2] is current->enclosing), functions holds the *)
(* functions end_compiler has returned, ret is the value the last call     *)
(* returned.  opened (the local_count at each begin_scope still open),     *)
(* marks, scoped, resolved and pooled record what the calls did.           *)

UINT16_MAX == 65535

StringValue(s) == [kind |-> "string", s |-> s, n |-> 0]

NumberValue(n) == [kind |-> "number", s |-> "", n |-> n]

FunctionValue(f) == [kind |-> "function", s |-> "", n |-> f]

NewFunction ==
  [name |-> "", arity |-> 0, upvalue_count |-> 0, code |-> <<>>, constants |-> <<>>]

Count(c) == Len(c.current[1].function.code)

unit_error_at(c, message) ==
  IF c.panic_mode THEN c
  ELSE [c EXCEPT !.panic_mode = TRUE, !.had_error = TRUE, !.errors = Append(@, message)]

emit_byte(c, byte) == [c EXCEPT !.current[1].function.code = Append(@, byte)]

unit_emit_bytes(c, byte_1, byte_2) == emit_byte(emit_byte(c, byte_1), byte_2)

(* emit_loop after its emit_byte(OP_LOOP) *)
LoopOperand(c, offset) ==
  emit_byte(emit_byte(IF offset > UINT16_MAX THEN unit_error_at(c, "Loop body too large.") ELSE c,
                      (offset \div 256) % 256),
            offset % 256)

LoopOffset(c, loop_start) == LoopOperand(c, Count(c) - loop_start + 2)

emit_loop(c, loop_start) == LoopOffset(emit_byte(c, OP_LOOP), loop_start)

(* emit_jump: the offset of the operand is returned *)
JumpOperand(c) == [c EXCEPT !.ret = Count(c) - 2]

emit_jump(c, instruction) == JumpOperand(emit_byte(emit_byte(emit_byte(c, instruction), 255), 255))

unit_patch_jump(c, offset) ==
  LET jump == Count(c) - offset - 2
  IN [(IF jump > UINT16_MAX THEN unit_error_at(c, "Too much code to jump over.") ELSE c)
        EXCEPT !.current[1].function.code[offset + 1] = (jump \div 256) % 256,
               !.current[1].function.code[offset + 2] = jump % 256]

(* init_compiler: the new Compiler with slot 0 reserved, current = compiler *)
unit_init_compiler(c, type, name) ==
  [c EXCEPT !.current =
     <<[type |-> type,
        function |-> [NewFunction EXCEPT !.name = name],
        locals |-> <<[name |-> IF type # "TYPE_FUNCTION" THEN "this" ELSE "",
                      depth |-> 0, is_captured |-> FALSE]>>,
        upvalues |-> <<>>,
        scope_depth |-> 0,
        opened |-> <<>>]>> \o @]

unit_emit_return(c) ==
  IF c.current[1].type = "TYPE_INITIALIZER"
  THEN emit_byte(unit_emit_bytes(c, OP_GET_LOCAL, 0), OP_RETURN)
  ELSE emit_byte(emit_byte(c, OP_NIL), OP_RETURN)

(* end_compiler after emit_return: the function is returned (ret is its    *)
(* place in functions) and current = current->enclosing; left is the       *)
(* Compiler struct the caller still has on its stack                       *)
LeaveUnit(c) ==
  [c EXCEPT !.functions = Append(@, c.current[1].function),
            !.ret = Len(c.functions) + 1,
            !.left = c.current[1],
            !.current = Tail(@)]

unit_end_compiler(c) == LeaveUnit(unit_emit_return(c))

(* add_constant: write_value_array, then constants.count - 1 *)
unit_add_constant(c, value) ==
  [c EXCEPT !.current[1].function.constants = Append(@, value),
            !.ret = Len(c.current[1].function.constants)]

(* what a make_constant call did: the value, the index returned, the size  *)
(* of the pool after it, the value the pool holds at that index, whether   *)
(* the call printed an error, whether the parser was in panic mode when it *)
(* was made and whether had_error was set when it returned                 *)
Pooled(c, value, prior) ==
  [c EXCEPT !.pooled =
     Append(@, [value |-> value, index |-> c.ret,
                count |-> Len(c.current[1].function.constants),
                held |-> c.current[1].function.constants[c.ret + 1],
                reported |-> c.errors # prior.errors,
                panic |-> prior.panic_mode,
                had_error |-> c.had_error])]

(* make_constant that accepts one constant more *)
TooMany_late(c) ==
  IF c.ret > UINT8_MAX + 1
  THEN [unit_error_at(c, "Too many constants in one chunk.") EXCEPT !.ret = 0]
  ELSE c

(* make_constant after its add_constant *)
TooMany(c) ==
  IF c.ret > UINT8_MAX
  THEN [unit_error_at(c, "Too many constants in one chunk.") EXCEPT !.ret = 0]
  ELSE c

unit_make_constant(c, value) == Pooled(TooMany(unit_add_constant(c, value)), value, c)

(* emit_bytes(op, index) with the index the last call returned *)
EmitOperand(c, op) == unit_emit_bytes(c, op, c.ret % 256)

emit_constant(c, value) == EmitOperand(unit_make_constant(c, value), OP_CONSTANT)

identifier_constant(c, name) == unit_make_constant(c, StringValue(name))

(* resolve_local on the Compiler at `level` of the chain (1 is current) *)
RECURSIVE ResolveLocalLoop(_, _, _, _)
ResolveLocalLoop(c, level, name, i) ==
  IF i < 0 THEN [c EXCEPT !.ret = -1]
  ELSE IF c.current[level].locals[i + 1].name = name
       THEN [(IF c.current[level].locals[i + 1].depth = -1
              THEN unit_error_at(c, "Can't read local variable in its own initializer.")
              ELSE c) EXCEPT !.ret = i]
       ELSE ResolveLocalLoop(c, level, name, i - 1)

resolve_local(c, level, name) ==
  ResolveLocalLoop(c, level, name, Len(c.current[level].locals) - 1)

(* add_upvalue: the upvalues already there, in the order of the array *)
Coalesced(upvalues, index, is_local) ==
  {i \in 1..Len(upvalues) : upvalues[i].index = index /\ upvalues[i].is_local = is_local}

add_upvalue(c, level, index, is_local) ==
  LET upvalues == c.current[level].upvalues
      upvalue_count == c.current[level].function.upvalue_count
      found == Coalesced(SubSeq(upvalues, 1, upvalue_count), index, is_local)
  IN IF found # {} THEN [c EXCEPT !.ret = (CHOOSE i \in found : \A j \in found : i <= j) - 1]
     ELSE IF upvalue_count >= UINT8_MAX
     THEN [unit_error_at(c, "Too many closed variables in function.") EXCEPT !.ret = 0]
     ELSE [c EXCEPT !.current[level].upvalues =
                      Append(@, [index |-> index, is_local |-> is_local]),
                    !.current[level].function.upvalue_count = @ + 1,
                    !.ret = upvalue_count]

RECURSIVE resolve_upvalue(_, _, _), ResolvedLocal(_, _, _), ResolvedUpvalue(_, _)

(* resolve_upvalue that takes the upvalue of the enclosing function for a  *)
(* local of it                                                             *)
ResolvedUpvalue_local(c, level) ==
  IF c.ret # -1 THEN add_upvalue(c, level, c.ret % 256, TRUE) ELSE c

(* resolve_upvalue after the recursive call on the enclosing compiler *)
ResolvedUpvalue(c, level) ==
  IF c.ret # -1 THEN add_upvalue(c, level, c.ret % 256, FALSE) ELSE c

(* resolve_upvalue after resolve_local(compiler->enclosing, name) *)
ResolvedLocal(c, level, name) ==
  IF c.ret # -1
  THEN add_upvalue([c EXCEPT !.current[level + 1].locals[c.ret + 1].is_captured = TRUE],
                   level, c.ret % 256, TRUE)
  ELSE ResolvedUpvalue(resolve_upvalue(c, level + 1, name), level)

resolve_upvalue(c, level, name) ==
  IF level = Len(c.current) THEN [c EXCEPT !.ret = -1]
  ELSE ResolvedLocal(resolve_local(c, level + 1, name), level, name)

(* the locals and upvalues of every Compiler of the chain *)
Chain(c) ==
  [level \in 1..Len(c.current) |->
     [locals |-> c.current[level].locals,
      upvalues |-> c.current[level].upvalues,
      upvalue_count |-> c.current[level].function.upvalue_count]]

(* what a resolve_upvalue(current, name) call of named_variable did *)
Resolved(c, name, prior) ==
  [c EXCEPT !.resolved =
     Append(@, [name |-> name, ret |-> c.ret, prior |-> Chain(prior), after |-> Chain(c),
                reported |-> c.errors # prior.errors])]

unit_add_local(c, name) ==
  IF Len(c.current[1].locals) = UINT8_MAX
  THEN unit_error_at(c, "Too many local variables in scope.")
  ELSE [c EXCEPT !.current[1].locals =
                   Append(@, [name |-> name, depth |-> -1, is_captured |-> FALSE])]

(* declare_variable: the loop over the locals of the current scope *)
RECURSIVE Redeclared(_, _, _)
Redeclared(c, name, i) ==
  IF i < 0 THEN c
  ELSE IF c.current[1].locals[i + 1].depth # -1
          /\ c.current[1].locals[i + 1].depth < c.current[1].scope_depth
       THEN c
       ELSE Redeclared(IF c.current[1].locals[i + 1].name = name
                       THEN unit_error_at(c, "Already a variable with this name in this scope.")
                       ELSE c,
                       name, i - 1)

declare_variable(c, name) ==
  IF c.current[1].scope_depth = 0 THEN c
  ELSE unit_add_local(Redeclared(c, name, Len(c.current[1].locals) - 1), name)

(* parse_variable after consume(TOKEN_IDENTIFIER) *)
Declared(c, name) ==
  IF c.current[1].scope_depth > 0 THEN [c EXCEPT !.ret = 0] ELSE identifier_constant(c, name)

parse_variable(c, name) == Declared(declare_variable(c, name), name)

mark_initialized(c) ==
  IF c.current[1].scope_depth = 0 THEN c
  ELSE [c EXCEPT !.current[1].locals[Len(c.current[1].locals)].depth = c.current[1].scope_depth]

define_variable(c, global) ==
  IF c.current[1].scope_depth > 0 THEN mark_initialized(c)
  ELSE unit_emit_bytes(c, OP_DEFINE_GLOBAL, global)

begin_scope(c) ==
  [c EXCEPT !.current[1].scope_depth = @ + 1,
            !.current[1].opened = Append(@, Len(c.current[1].locals))]

(* end_scope: the while loop, one local at a time *)
RECURSIVE PopLocals(_)

(* end_scope that pops every local, captured or not *)
PopLocals_uncaptured(c) ==
  LET locals == c.current[1].locals
  IN IF Len(locals) > 0 /\ locals[Len(locals)].depth > c.current[1].scope_depth
     THEN PopLocals([emit_byte(c, OP_POP)
                       EXCEPT !.current[1].locals = SubSeq(locals, 1, Len(locals) - 1)])
     ELSE c

PopLocals(c) ==
  LET locals == c.current[1].locals
  IN IF Len(locals) > 0 /\ locals[Len(locals)].depth > c.current[1].scope_depth
     THEN PopLocals([emit_byte(c, IF locals[Len(locals)].is_captured
                                  THEN OP_CLOSE_UPVALUE ELSE OP_POP)
                       EXCEPT !.current[1].locals = SubSeq(locals, 1, Len(locals) - 1)])
     ELSE c

(* what an end_scope call did: the locals prior and after it, the         *)
(* local_count at the begin_scope it closes and the code it emitted        *)
Scoped(c, prior) ==
  [c EXCEPT !.scoped =
     Append(@, [prior |-> prior.current[1].locals,
                after |-> c.current[1].locals,
                entry |-> prior.current[1].opened[Len(prior.current[1].opened)],
                code |-> SubSeq(c.current[1].function.code, Count(prior) + 1, Count(c))]),
            !.current[1].opened = SubSeq(@, 1, Len(@) - 1)]

unit_end_scope(c) == Scoped(PopLocals([c EXCEPT !.current[1].scope_depth = @ - 1]), c)

(* the code from `start` to here was compiled for a node of this kind, and *)
(* running it changes the height of the stack by `gain` (kept for the      *)
(* chunk of the script)                                                    *)
Marked(c, kind, start, gain) ==
  IF Count(c) > start
  THEN [c EXCEPT !.marks = Append(@, [kind |-> kind, start |-> start, end |-> Count(c),
                                      gain |-> gain])]
  ELSE c

RECURSIVE expression(_, _), statement(_, _), declaration(_, _), Declarations(_, _),
          named_variable(_, _, _), var_declaration(_, _, _), function(_, _, _, _, _),
          argument_list(_, _, _)

literal(c, type) ==
  CASE type = "false" -> emit_byte(c, OP_FALSE)
    [] type = "true" -> emit_byte(c, OP_TRUE)
    [] type = "nil" -> emit_byte(c, OP_NIL)

number(c, value) == emit_constant(c, NumberValue(value))

string(c, chars) == emit_constant(unit_make_constant(c, StringValue(chars)), StringValue(chars))

(* named_variable after the operand is known *)
Access(c, set_op, get_op, arg, assigned) ==
  IF Len(assigned) > 0
  THEN unit_emit_bytes(expression(c, assigned[1]), set_op, arg % 256)
  ELSE unit_emit_bytes(c, get_op, arg % 256)

NamedGlobal(c, assigned) == Access(c, OP_SET_GLOBAL, OP_GET_GLOBAL, c.ret, assigned)

NamedUpvalue(c, name, assigned) ==
  IF c.ret # -1 THEN Access(c, OP_SET_UPVALUE, OP_GET_UPVALUE, c.ret, assigned)
  ELSE NamedGlobal(identifier_constant(c, name), assigned)

NamedLocal(c, name, assigned) ==
  IF c.ret # -1 THEN Access(c, OP_SET_LOCAL, OP_GET_LOCAL, c.ret, assigned)
  ELSE NamedUpvalue(Resolved(resolve_upvalue(c, 1, name), name, c), name, assigned)

named_variable(c, name, assigned) == NamedLocal(resolve_local(c, 1, name), name, assigned)

(* and_ after emit_jump(OP_JUMP_IF_FALSE) *)
AndRight(c, right) == unit_patch_jump(expression(emit_byte(c, OP_POP), right), c.ret)

and_(c, right) == AndRight(emit_jump(c, OP_JUMP_IF_FALSE), right)

(* or_ after its two emit_jump calls *)
OrRight(c, else_jump, right) ==
  unit_patch_jump(expression(emit_byte(unit_patch_jump(c, else_jump), OP_POP), right), c.ret)

OrElse(c, right) == OrRight(emit_jump(c, OP_JUMP), c.ret, right)

or_(c, right) == OrElse(emit_jump(c, OP_JUMP_IF_FALSE), right)

(* argument_list: the loop over the arguments, then the count *)
argument_list(c, arguments, arg_count) ==
  IF Len(arguments) = 0 THEN [c EXCEPT !.ret = arg_count % 256]
  ELSE argument_list(IF arg_count % 256 = 255
                     THEN unit_error_at(expression(c, Head(arguments)),
                                        "Can't have more than 255 arguments.")
                     ELSE expression(c, Head(arguments)),
                     Tail(arguments), arg_count + 1)

unit_call(c, arguments) == EmitOperand(argument_list(c, arguments, 0), OP_CALL)

(* expression on the node e: the prefix or infix function of its kind *)
Parsed(c, e) ==
  CASE e[1] \in {"true", "false", "nil"} -> literal(c, e[1])
    [] e[1] = "number" -> number(c, e[2])
    [] e[1] = "string" -> string(c, e[2])
    [] e[1] = "variable" -> named_variable(c, e[2], <<>>)
    [] e[1] = "assign" -> named_variable(c, e[2], <<e[3]>>)
    [] e[1] = "call" -> unit_call(expression(c, e[2]), e[3])
    [] e[1] = "and" -> and_(expression(c, e[2]), e[3])
    [] e[1] = "or" -> or_(expression(c, e[2]), e[3])

expression(c, e) ==
  IF Len(c.current) = 1 /\ e[1] \in {"and", "or"}
  THEN Marked(Parsed(c, e), e[1], Count(c), 1)
  ELSE Parsed(c, e)

expression_statement(c, e) == emit_byte(expression(c, e), OP_POP)

(* var_declaration after parse_variable *)
VarDefine(c, init) ==
  define_variable(IF Len(init) > 0 THEN expression(c, init[1]) ELSE emit_byte(c, OP_NIL),
                  c.ret % 256)

var_declaration(c, name, init) == VarDefine(parse_variable(c, name), init)

(* if_statement that leaves the condition on the stack of the else path *)
IfElse_unpopped(c, then_jump, else) ==
  unit_patch_jump(
    IF Len(else) > 0
    THEN statement(unit_patch_jump(c, then_jump), else[1])
    ELSE unit_patch_jump(c, then_jump),
    c.ret)

(* if_statement after emit_jump(OP_JUMP) *)
IfElse(c, then_jump, else) ==
  unit_patch_jump(
    IF Len(else) > 0
    THEN statement(emit_byte(unit_patch_jump(c, then_jump), OP_POP), else[1])
    ELSE emit_byte(unit_patch_jump(c, then_jump), OP_POP),
    c.ret)

(* if_statement after emit_jump(OP_JUMP_IF_FALSE) *)
IfThen(c, then, else) ==
  IfElse(emit_jump(statement(emit_byte(c, OP_POP), then), OP_JUMP), c.ret, else)

if_statement(c, condition, then, else) ==
  IfThen(emit_jump(expression(c, condition), OP_JUMP_IF_FALSE), then, else)

(* while_statement after emit_jump(OP_JUMP_IF_FALSE) *)
WhileBody(c, loop_start, body) ==
  emit_byte(unit_patch_jump(emit_loop(statement(emit_byte(c, OP_POP), body), loop_start),
                            c.ret),
            OP_POP)

while_statement(c, condition, body) ==
  WhileBody(emit_jump(expression(c, condition), OP_JUMP_IF_FALSE), Count(c), body)

(* for_statement: the initializer clause *)
ForInitializer(c, init) ==
  IF Len(init) = 0 THEN c
  ELSE IF init[1][1] = "var" THEN var_declaration(c, init[1][2], init[1][3])
  ELSE expression_statement(c, init[1][2])

(* for_statement from the body on *)
ForEnd(c, exit_jump) ==
  IF exit_jump # -1 THEN emit_byte(unit_patch_jump(c, exit_jump), OP_POP) ELSE c

ForBody(c, loop_start, exit_jump, body) ==
  ForEnd(emit_loop(statement(c, body), loop_start), exit_jump)

(* for_statement: the increment clause, after emit_jump(OP_JUMP) *)
ForClause(c, loop_start, exit_jump, increment, body) ==
  ForBody(unit_patch_jump(emit_loop(emit_byte(expression(c, increment[1]), OP_POP),
                                    loop_start),
                          c.ret),
          Count(c), exit_jump, body)

ForIncrement(c, loop_start, exit_jump, increment, body) ==
  IF Len(increment) = 0 THEN ForBody(c, loop_start, exit_jump, body)
  ELSE ForClause(emit_jump(c, OP_JUMP), loop_start, exit_jump, increment, body)

(* for_statement: the condition clause, after emit_jump(OP_JUMP_IF_FALSE) *)
ForExit(c, loop_start, increment, body) ==
  ForIncrement(emit_byte(c, OP_POP), loop_start, c.ret, increment, body)

ForCondition(c, condition, increment, body) ==
  IF Len(condition) = 0 THEN ForIncrement(c, Count(c), -1, increment, body)
  ELSE ForExit(emit_jump(expression(c, condition[1]), OP_JUMP_IF_FALSE), Count(c),
               increment, body)

for_statement(c, init, condition, increment, body) ==
  unit_end_scope(ForCondition(ForInitializer(begin_scope(c), init), condition, increment,
                              body))

return_statement(c, value) ==
  LET c1 == IF c.current[1].type = "TYPE_SCRIPT"
            THEN unit_error_at(c, "Can't return from top-level code.") ELSE c
  IN IF Len(value) = 0 THEN unit_emit_return(c1)
     ELSE emit_byte(expression(IF c.current[1].type = "TYPE_INITIALIZER"
                               THEN unit_error_at(c1, "Can't return a value from an initializer.")
                               ELSE c1,
                               value[1]),
                    OP_RETURN)

block(c, declarations) == Declarations(c, declarations)

(* statement on the node s: the function of its kind *)
Matched(c, s) ==
  CASE s[1] = "if" -> if_statement(c, s[2], s[3], s[4])
    [] s[1] = "return" -> return_statement(c, s[2])
    [] s[1] = "while" -> while_statement(c, s[2], s[3])
    [] s[1] = "for" -> for_statement(c, s[2], s[3], s[4], s[5])
    [] s[1] = "block" -> unit_end_scope(block(begin_scope(c), s[2]))
    [] s[1] = "expression" -> expression_statement(c, s[2])

statement(c, s) ==
  IF Len(c.current) = 1 THEN Marked(Matched(c, s), s[1], Count(c), 0) ELSE Matched(c, s)

(* define_variable(constant) with the constant parse_variable returned *)
DefineParsed(c) == define_variable(c, c.ret % 256)

(* function: the parameter list *)
RECURSIVE Parameters(_, _)
Parameters(c, params) ==
  IF Len(params) = 0 THEN c
  ELSE LET counted == [c EXCEPT !.current[1].function.arity = @ + 1]
           checked == IF counted.current[1].function.arity > 255
                      THEN unit_error_at(counted, "Can't have more than 255 parameters.")
                      ELSE counted
       IN Parameters(DefineParsed(parse_variable(checked, Head(params))),
                     Tail(params))

(* function: the is_local and index bytes after OP_CLOSURE *)
RECURSIVE UpvalueOperands(_, _, _, _)
UpvalueOperands(c, upvalues, upvalue_count, i) ==
  IF i >= upvalue_count THEN c
  ELSE UpvalueOperands(
         emit_byte(emit_byte(c, IF upvalues[i + 1].is_local THEN 1 ELSE 0),
                   upvalues[i + 1].index),
         upvalues, upvalue_count, i + 1)

(* function after end_compiler *)
Closure(c) ==
  UpvalueOperands(EmitOperand(unit_make_constant(c, FunctionValue(c.ret)), OP_CLOSURE),
                  c.left.upvalues, c.functions[c.ret].upvalue_count, 0)

function(c, type, name, params, body) ==
  Closure(unit_end_compiler(
            block(Parameters(begin_scope(unit_init_compiler(c, type, name)), params), body)))

(* fun_declaration after mark_initialized *)
FunDefine(c, name, params, body) ==
  define_variable(function(c, "TYPE_FUNCTION", name, params, body), c.ret % 256)

fun_declaration(c, name, params, body) ==
  FunDefine(mark_initialized(parse_variable(c, name)), name, params, body)

(* synchronize: parser.previous is the `;` that ended the statement in     *)
(* which the error was reported, so no token is skipped                    *)
unit_synchronize(c) == [c EXCEPT !.panic_mode = FALSE]

Synchronized(c) == IF c.panic_mode THEN unit_synchronize(c) ELSE c

declaration(c, d) ==
  Synchronized(CASE d[1] = "fun" -> fun_declaration(c, d[2], d[3], d[4])
                 [] d[1] = "var" -> var_declaration(c, d[2], d[3])
                 [] OTHER -> statement(c, d))

Declarations(c, declarations) ==
  IF Len(declarations) = 0 \/ c.current = <<>> THEN c
  ELSE Declarations(declaration(c, Head(declarations)), Tail(declarations))

(* compile up to the loop over the declarations *)
NoCompiler ==
  [current |-> <<>>, functions |-> <<>>, had_error |-> FALSE, panic_mode |-> FALSE,
   errors |-> <<>>, ret |-> 0, left |-> <<>>, marks |-> <<>>, scoped |-> <<>>,
   resolved |-> <<>>, pooled |-> <<>>]

StartCompile == unit_init_compiler(NoCompiler, "TYPE_SCRIPT", "")

(* compile from end_compiler on: NULL (0) when an error was reported *)
EndCompile(c) ==
  IF unit_end_compiler(c).had_error THEN [unit_end_compiler(c) EXCEPT !.ret = NULL]
  ELSE unit_end_compiler(c)

-----------------------------------------------------------------------------
(* The programs compiled.  Names are strings; Var, Get, Set, Lit, Call and *)
(* Do build the nodes.                                                     *)

Get(name) == <<"variable", name>>

Set(name, e) == <<"assign", name, e>>

Lit(n) == <<"number", n>>

Call(name, arguments) == <<"call", Get(name), arguments>>

Do(e) == <<"expression", e>>

Var(name, e) == <<"var", name, <<e>>>>

(* src/examples/closure_2.lox *)
Program_closure_2 ==
  << <<"fun", "outer", <<>>,
       << Var("x", <<"string", "value">>),
          <<"fun", "middle", <<>>,
            << <<"fun", "inner", <<>>, << Do(Call("println", <<Get("x")>>)) >> >>,
               Do(Call("println", << <<"string", "create inner closure">> >>)),
               <<"return", <<Get("inner")>> >> >> >>,
          Do(Call("println", << <<"string", "return from outer">> >>)),
          <<"return", <<Get("middle")>> >> >> >>,
     Var("mid", Call("outer", <<>>)),
     Var("in", Call("mid", <<>>)),
     Do(Call("in", <<>>)) >>

(* if (a) 1; else 2;
   if (a and b or c) { var t; t = a; }
   if (b or a and c) if (c) 3; *)
Program_if ==
  << <<"if", Get("a"), Do(Lit(1)), <<Do(Lit(2))>> >>,
     <<"if", <<"or", <<"and", Get("a"), Get("b")>>, Get("c")>>,
       <<"block", << <<"var", "t", <<>> >>, Do(Set("t", Get("a"))) >> >>, <<>> >>,
     <<"if", <<"or", Get("b"), <<"and", Get("a"), Get("c")>> >>,
       <<"if", Get("c"), Do(Lit(3)), <<>> >>, <<>> >> >>

(* var i = 0;
   while (a or b) { var j = i; if (c) i = 1; else while (d and j) j = false; } *)
Program_while ==
  << Var("i", Lit(0)),
     <<"while", <<"or", Get("a"), Get("b")>>,
       <<"block",
         << Var("j", Get("i")),
            <<"if", Get("c"), Do(Set("i", Lit(1))),
              << <<"while", <<"and", Get("d"), Get("j")>>, Do(Set("j", <<"false">>)) >> >> >> >> >> >> >>

(* for (var i = 0; a; i = 1) { fun f() { i; } }
   for (; b;) 1;
   for (x = 1; c; y = 2) { if (d) 3; }
   { var k = true; for (; k; k = a) { if (k) 4; } }
   for (;; x = 1) 5; *)
Program_for ==
  << <<"for", <<Var("i", Lit(0))>>, <<Get("a")>>, <<Set("i", Lit(1))>>,
       <<"block", << <<"fun", "f", <<>>, <<Do(Get("i"))>> >> >> >> >>,
     <<"for", <<>>, <<Get("b")>>, <<>>, Do(Lit(1))>>,
     <<"for", <<Do(Set("x", Lit(1)))>>, <<Get("c")>>, <<Set("y", Lit(2))>>,
       <<"block", << <<"if", Get("d"), Do(Lit(3)), <<>> >> >> >> >>,
     <<"block",
       << Var("k", <<"true">>),
          <<"for", <<>>, <<Get("k")>>, <<Set("k", Get("a"))>>,
            <<"block", << <<"if", Get("k"), Do(Lit(4)), <<>> >> >> >> >> >> >>,
     <<"for", <<>>, <<>>, <<Set("x", Lit(1))>>, Do(Lit(5))>> >>

(* { var a = 1; var b = 2;
     { var c = a; fun g() { return b; } var d; }
     fun h(p) { fun m() { a; p; a; fun n() { a; b; } } a; }
     var e; } *)
Program_block ==
  << <<"block",
       << Var("a", Lit(1)),
          Var("b", Lit(2)),
          <<"block",
            << Var("c", Get("a")),
               <<"fun", "g", <<>>, << <<"return", <<Get("b")>> >> >> >>,
               <<"var", "d", <<>> >> >> >>,
          <<"fun", "h", <<"p">>,
            << <<"fun", "m", <<>>,
                 << Do(Get("a")), Do(Get("p")), Do(Get("a")),
                    <<"fun", "n", <<>>, << Do(Get("a")), Do(Get("b")) >> >> >> >>,
               Do(Get("a")) >> >>,
          <<"var", "e", <<>> >> >> >> >>

(* 0; 1; 2; ... with n statements *)
Program_numbers(n) == [i \in 1..n |-> Do(Lit(i - 1))]

(* "s"; "s"; ... with n statements *)
Program_strings(n) == [i \in 1..n |-> Do(<<"string", "s">>)]

Programs ==
  << Program_closure_2, Program_if, Program_while, Program_for, Program_block,
     Program_numbers(UINT8_MAX + 1), Program_numbers(UINT8_MAX + 2),
     Program_strings((UINT8_MAX + 1) \div 2), Program_strings((UINT8_MAX + 1) \div 2 + 1) >>

-----------------------------------------------------------------------------
(* compile, one declaration at a time, and run on the chunk of the script  *)
(* with the values of the stack reduced to what is_falsey says of them     *)
(* (FALSE for nil and false, TRUE for every other value).  active holds    *)
(* the marks whose code is being run, each with the height of the stack    *)
(* at its first instruction.                                               *)

MaxRunStack == 12

UnitInit ==
  /\ vm = ZeroedVM(FALSE)
  /\ parser = NoParse
  /\ pc = "idle"
  /\ returned = "none"
  /\ events = <<>>
  /\ calls = 0
  /\ before = NoStep
  /\ snap = [source |-> 0, stack |-> <<>>, frames |-> <<>>, globals |-> init_table, past |-> <<>>]
  /\ heights = NoHeights
  /\ tbl = NoTable
  /\ hashing = NoHash
  /\ lexing = NoLexing
  /\ conv = NoConv
  /\ writing = NoWriting
  /\ \E program \in 1..Len(Programs) :
       unit = [at |-> "compiling", program |-> program, next |-> 1, c |-> StartCompile,
               function |-> NULL, ip |-> 0, stack |-> <<>>, active |-> {}]

UnitStep(u) ==
  /\ unit' = u
  /\ UNCHANGED <<vm, parser, pc, returned, events, calls, before, snap, heights, tbl, hashing,
                 lexing, conv, writing>>

(* the while loop of compile: one declaration *)
UnitDeclaration ==
  /\ unit.at = "compiling"
  /\ unit.next <= Len(Programs[unit.program])
  /\ UnitStep([unit EXCEPT !.c = declaration(@, Programs[unit.program][unit.next]),
                           !.next = @ + 1])

(* the machine arrives at ip: the marks that ended where it was, or that   *)
(* do not hold ip, are left; the marks that start at ip are entered        *)
Arrived(u, ip) ==
  LET marks == u.c.marks
      kept == {a \in u.active : /\ marks[a[1]].end # u.ip
                                /\ marks[a[1]].start <= ip
                                /\ ip <= marks[a[1]].end}
  IN [u EXCEPT !.ip = ip,
               !.active = kept \cup {<<k, Len(u.stack)>> : k \in
                            {k \in 1..Len(marks) :
                               marks[k].start = ip /\ k \notin {a[1] : a \in kept}}}]

(* interpret: compile; push(function); pop(); push(closure); call(closure, 0) *)
UnitEndCompiler ==
  /\ unit.at = "compiling"
  /\ unit.next > Len(Programs[unit.program])
  /\ UnitStep(IF EndCompile(unit.c).ret = NULL
              THEN [unit EXCEPT !.c = EndCompile(unit.c), !.at = "failed"]
              ELSE Arrived([unit EXCEPT !.c = EndCompile(unit.c),
                                        !.function = EndCompile(unit.c).ret,
                                        !.at = "running",
                                        !.stack = <<TRUE>>,
                                        !.ip = -1], 0))

UnitCode(u) == u.c.functions[u.function].code

UnitByte(u, k) == UnitCode(u)[u.ip + 1 + k]

UnitShort(u) == UnitByte(u, 1) * 256 + UnitByte(u, 2)

UnitRunning(op) == unit.at = "running" /\ UnitByte(unit, 0) = op

UnitPush(u, value) == [u EXCEPT !.stack = Append(@, value)]

UnitPop(u) == [u EXCEPT !.stack = SubSeq(@, 1, Len(@) - 1)]

UnitPeek(u, distance) == u.stack[Len(u.stack) - distance]

UnitOpTrue ==
  /\ UnitRunning(OP_TRUE)
  /\ Len(unit.stack) < MaxRunStack
  /\ UnitStep(Arrived(UnitPush(unit, TRUE), unit.ip + 1))

UnitOpFalse ==
  /\ UnitRunning(OP_FALSE)
  /\ Len(unit.stack) < MaxRunStack
  /\ UnitStep(Arrived(UnitPush(unit, FALSE), unit.ip + 1))

UnitOpNil ==
  /\ UnitRunning(OP_NIL)
  /\ Len(unit.stack) < MaxRunStack
  /\ UnitStep(Arrived(UnitPush(unit, FALSE), unit.ip + 1))

(* numbers, strings and functions are not falsey *)
UnitOpConstant ==
  /\ UnitRunning(OP_CONSTANT)
  /\ Len(unit.stack) < MaxRunStack
  /\ UnitStep(Arrived(UnitPush(unit, TRUE), unit.ip + 2))

UnitOpPop ==
  /\ UnitRunning(OP_POP)
  /\ UnitStep(Arrived(UnitPop(unit), unit.ip + 1))

UnitOpCloseUpvalue ==
  /\ UnitRunning(OP_CLOSE_UPVALUE)
  /\ UnitStep(Arrived(UnitPop(unit), unit.ip + 1))

UnitOpDefineGlobal ==
  /\ UnitRunning(OP_DEFINE_GLOBAL)
  /\ UnitStep(Arrived(UnitPop(unit), unit.ip + 2))

(* the value of a global is any value *)
UnitOpGetGlobal ==
  /\ UnitRunning(OP_GET_GLOBAL)
  /\ Len(unit.stack) < MaxRunStack
  /\ \E value \in BOOLEAN : UnitStep(Arrived(UnitPush(unit, value), unit.ip + 2))

UnitOpSetGlobal ==
  /\ UnitRunning(OP_SET_GLOBAL)
  /\ UnitStep(Arrived(unit, unit.ip + 2))

UnitOpGetLocal ==
  /\ UnitRunning(OP_GET_LOCAL)
  /\ Len(unit.stack) < MaxRunStack
  /\ UnitStep(Arrived(UnitPush(unit, unit.stack[UnitByte(unit, 1) + 1]), unit.ip + 2))

UnitOpSetLocal ==
  /\ UnitRunning(OP_SET_LOCAL)
  /\ UnitStep(Arrived([unit EXCEPT !.stack[UnitByte(unit, 1) + 1] = UnitPeek(unit, 0)],
                      unit.ip + 2))

UnitOpJump ==
  /\ UnitRunning(OP_JUMP)
  /\ UnitStep(Arrived(unit, unit.ip + 3 + UnitShort(unit)))

UnitOpJumpIfFalse ==
  /\ UnitRunning(OP_JUMP_IF_FALSE)
  /\ UnitStep(Arrived(unit, IF ~UnitPeek(unit, 0) THEN unit.ip + 3 + UnitShort(unit)
                            ELSE unit.ip + 3))

UnitOpLoop ==
  /\ UnitRunning(OP_LOOP)
  /\ UnitStep(Arrived(unit, unit.ip + 3 - UnitShort(unit)))

(* a call that returns: the callee and its arguments are replaced by the   *)
(* value returned, which is any value                                      *)
RECURSIVE UnitPopN(_, _)
UnitPopN(u, n) == IF n = 0 THEN u ELSE UnitPopN(UnitPop(u), n - 1)

UnitOpCall ==
  /\ UnitRunning(OP_CALL)
  /\ \E value \in BOOLEAN :
       UnitStep(Arrived(UnitPush(UnitPopN(unit, UnitByte(unit, 1) + 1), value), unit.ip + 2))

(* OP_CLOSURE: the closure is pushed and the operands of its upvalues read *)
UnitOpClosure ==
  /\ UnitRunning(OP_CLOSURE)
  /\ Len(unit.stack) < MaxRunStack
  /\ UnitStep(Arrived(UnitPush(unit, TRUE),
                      unit.ip + 2 + 2 * unit.c.functions[
                        unit.c.functions[unit.function].constants[UnitByte(unit, 1) + 1].n
                      ].upvalue_count))

(* OP_RETURN of the script *)
UnitOpReturn ==
  /\ UnitRunning(OP_RETURN)
  /\ UnitStep([UnitPopN(unit, 2) EXCEPT !.at = "done", !.active = {}])

UnitNext ==
  \/ UnitDeclaration
  \/ UnitEndCompiler
  \/ UnitOpTrue
  \/ UnitOpFalse
  \/ UnitOpNil
  \/ UnitOpConstant
  \/ UnitOpPop
  \/ UnitOpCloseUpvalue
  \/ UnitOpDefineGlobal
  \/ UnitOpGetGlobal
  \/ UnitOpSetGlobal
  \/ UnitOpGetLocal
  \/ UnitOpSetLocal
  \/ UnitOpJump
  \/ UnitOpJumpIfFalse
  \/ UnitOpLoop
  \/ UnitOpCall
  \/ UnitOpClosure
  \/ UnitOpReturn

CompileSpec == UnitInit /\ [][UnitNext]_vars

-----------------------------------------------------------------------------
(* C32: on every path through the code compiled for an if, while or for    *)
(* statement the stack is as high after the statement as before it (the    *)
(* condition is popped once on every path), and the code of `and` and of   *)
(* `or` leaves one value more than it found, on the short-circuit path and *)
(* on the fall-through path: when the machine leaves such code, the        *)
(* height is the height at its first instruction plus its gain.            *)
Left(u, kinds) ==
  {a \in u.active : u.c.marks[a[1]].kind \in kinds /\ u.ip = u.c.marks[a[1]].end}

C32_ControlFlow ==
  unit.at = "running" =>
    \A a \in Left(unit, {"if", "while", "for", "and", "or"}) :
      Len(unit.stack) = a[2] + unit.c.marks[a[1]].gain

(* the while statement in the else branch of an if statement, itself in    *)
(* the body of a while statement, is left: its condition is an `and`, and  *)
(* the local of the block is on the stack                                  *)
C32_Witness ==
  /\ unit.at = "running"
  /\ \E a \in Left(unit, {"while"}) : a[2] > 1

-----------------------------------------------------------------------------
(* C33: an end_scope call emits one instruction for each local declared in *)
(* the scope it closes, the last declared first, OP_CLOSE_UPVALUE for a    *)
(* captured local and OP_POP for any other, and leaves the locals that     *)
(* were there at the begin_scope; at run time the stack is as high when    *)
(* the machine leaves the code of a block as at its first instruction.     *)
ScopeCode(locals, entry) ==
  [i \in 1..(Len(locals) - entry) |->
     IF locals[Len(locals) - i + 1].is_captured THEN OP_CLOSE_UPVALUE ELSE OP_POP]

C33_EndScope ==
  /\ \A k \in 1..Len(unit.c.scoped) :
       /\ unit.c.scoped[k].entry <= Len(unit.c.scoped[k].prior)
       /\ unit.c.scoped[k].code = ScopeCode(unit.c.scoped[k].prior, unit.c.scoped[k].entry)
       /\ unit.c.scoped[k].after = SubSeq(unit.c.scoped[k].prior, 1, unit.c.scoped[k].entry)
  /\ unit.at = "running" =>
       \A a \in Left(unit, {"block"}) : Len(unit.stack) = a[2]

(* the machine leaves a block whose end_scope closed two captured locals   *)
(* and popped two others                                                   *)
C33_Witness ==
  /\ unit.at = "running"
  /\ Left(unit, {"block"}) # {}
  /\ \E k \in 1..Len(unit.c.scoped) :
       unit.c.scoped[k].code = <<OP_POP, OP_POP, OP_CLOSE_UPVALUE, OP_CLOSE_UPVALUE>>

-----------------------------------------------------------------------------
(* C34: when named_variable resolves, from a nested function, a name that  *)
(* is a local of an enclosing function, that local is marked captured and  *)
(* every function from the one directly inside the owner down to the user  *)
(* holds exactly one upvalue for it: (is_local, the slot of the local) in  *)
(* the function directly inside the owner, (not is_local, the index of the *)
(* upvalue of the enclosing function) below; the index returned is that of *)
(* the user's upvalue.  An upvalue that was there before the call is used  *)
(* again and no entry is added; a name that is a local of no enclosing     *)
(* function changes nothing and gives -1.                                  *)
Named(locals, name) == {i \in 1..Len(locals) : locals[i].name = name}

(* the nearest enclosing function (level 2 and up) that has the local *)
Owners(chain, name) == {level \in 2..Len(chain) : Named(chain[level].locals, name) # {}}

Lowest(set) == CHOOSE i \in set : \A j \in set : i <= j

Highest(set) == CHOOSE i \in set : \A j \in set : i >= j

Holding(upvalues, pair) == {i \in 1..Len(upvalues) : upvalues[i] = pair}

(* the index of the upvalue the function at `level` holds for the local,   *)
(* or -2 when its upvalues are not as stated                               *)
RECURSIVE UpvalueAt(_, _, _, _, _)
UpvalueHeld(prior, after, level, pair) ==
  IF /\ Cardinality(Holding(after[level].upvalues, pair)) = 1
     /\ after[level].upvalue_count = Len(after[level].upvalues)
     /\ IF Holding(prior[level].upvalues, pair) # {}
        THEN after[level].upvalues = prior[level].upvalues
        ELSE after[level].upvalues = Append(prior[level].upvalues, pair)
  THEN Lowest(Holding(after[level].upvalues, pair)) - 1
  ELSE -2

UpvalueAt(prior, after, level, owner, slot) ==
  UpvalueHeld(prior, after, level,
              IF level = owner - 1 THEN [index |-> slot, is_local |-> TRUE]
              ELSE [index |-> UpvalueAt(prior, after, level + 1, owner, slot),
                    is_local |-> FALSE])

ResolvedAsStated(r) ==
  IF Owners(r.prior, r.name) = {}
  THEN r.ret = -1 /\ r.after = r.prior
  ELSE LET owner == Lowest(Owners(r.prior, r.name))
           slot == Highest(Named(r.prior[owner].locals, r.name)) - 1
       IN /\ r.ret >= 0
          /\ r.ret = UpvalueAt(r.prior, r.after, 1, owner, slot)
          /\ r.after[owner].locals =
               [r.prior[owner].locals EXCEPT ![slot + 1].is_captured = TRUE]
          /\ \A level \in 1..Len(r.prior) :
               /\ level # owner => r.after[level].locals = r.prior[level].locals
               /\ level >= owner => r.after[level].upvalues = r.prior[level].upvalues

C34_ResolveUpvalue ==
  \A k \in 1..Len(unit.c.resolved) : ResolvedAsStated(unit.c.resolved[k])

(* a local of the script's block was resolved from a function three levels *)
(* below it, adding an upvalue to each of the three, and a name was        *)
(* resolved to an upvalue that was there already                           *)
C34_Witness ==
  /\ \E k \in 1..Len(unit.c.resolved) :
       /\ Len(unit.c.resolved[k].prior) = 4
       /\ Owners(unit.c.resolved[k].prior, unit.c.resolved[k].name) = {4}
       /\ \A level \in 1..3 : Len(unit.c.resolved[k].after[level].upvalues)
                                 = Len(unit.c.resolved[k].prior[level].upvalues) + 1
  /\ \E k \in 1..Len(unit.c.resolved) :
       /\ unit.c.resolved[k].ret >= 0
       /\ unit.c.resolved[k].after = unit.c.resolved[k].prior

-----------------------------------------------------------------------------
(* C35: a make_constant call that leaves at most 256 values in the pool    *)
(* returns the index of the value it added and reports nothing; a call     *)
(* that leaves more reports "Too many constants in one chunk." (unless the *)
(* parser is in panic mode already) and the compilation fails.  In the     *)
(* chunk of a script that compiled, the operand of every instruction that  *)
(* names a constant is the index, in 0..255, of a value of the kind the    *)
(* instruction was emitted for.                                            *)
PooledAsStated(p) ==
  IF p.count <= UINT8_MAX + 1
  THEN p.index = p.count - 1 /\ p.held = p.value /\ ~p.reported
  ELSE p.had_error /\ (p.reported \/ p.panic)

OperandKinds(op) ==
  CASE op = OP_CONSTANT -> {"number", "string"}
    [] op \in {OP_GET_GLOBAL, OP_SET_GLOBAL, OP_DEFINE_GLOBAL} -> {"string"}
    [] op = OP_CLOSURE -> {"function"}
    [] OTHER -> {}

-----------------------------------------------------------------------------
(* C36: compiling one string literal adds exactly one value to the pool of *)
(* the chunk, so that a script of n <= 256 statements, each a string       *)
(* literal, has as many constants as statements compiled and never fails.  *)
StringStatement(d) == d[1] = "expression" /\ d[2][1] = "string"

OnlyStrings(program) ==
  /\ Len(program) <= UINT8_MAX + 1
  /\ \A k \in 1..Len(program) : StringStatement(program[k])

C36_StringLiteral ==
  OnlyStrings(Programs[unit.program]) =>
    /\ unit.at # "failed"
    /\ unit.at = "compiling" =>
         Len(unit.c.current[1].function.constants) = unit.next - 1

-----------------------------------------------------------------------------
(* C37: between two synchronizations the compiler reports at most one      *)
(* error: since panic_mode was last cleared (by synchronize, or by compile *)
(* at its start) one message has been printed if panic_mode is set and     *)
(* none if it is clear, every other error_at call having returned without  *)
(* printing; synchronize returns after a `;`, before a token that starts a *)
(* statement, or at the end of the source; and when compile has returned   *)
(* after one message or more, interpret has returned the compile error.    *)
C37_PanicMode ==
  /\ parser.printed - parser.synced = IF parser.panic_mode THEN 1 ELSE 0
  /\ parser.had_error <=> parser.printed > 0
  /\ parser.suppressed > 0 => parser.had_error
  /\ parser.stopped # <<>> =>
       \/ parser.stopped[1] = "TOKEN_SEMICOLON"
       \/ parser.stopped[2] \in StatementStart
       \/ parser.stopped[2] = "TOKEN_EOF"
  /\ (parser.printed > 0 /\ pc # "compiling") =>
       pc = "idle" /\ returned = "INTERPRET_COMPILE_ERROR"

(* compile has returned after errors in five statements, one of them an   *)
(* error token among the tokens a synchronize skipped, and after error_at  *)
(* calls that printed nothing; the last synchronize stopped at the end of  *)
(* the source                                                              *)
C37_Witness ==
  /\ pc = "idle"
  /\ returned = "INTERPRET_COMPILE_ERROR"
  /\ parser.printed = 5
  /\ parser.suppressed > 2
  /\ parser.stopped = <<"TOKEN_EOF", "TOKEN_EOF">>

-----------------------------------------------------------------------------
(* lexer.c.  The source is a sequence of characters, lexer.start and       *)
(* lexer.current are offsets into it (the terminating NUL is at offset     *)
(* Len(source)), and token is the Token the last call returned.            *)

NUL == ""

init_lexer(text) ==
  [source |-> text, start |-> 0, current |-> 0, line |-> 1,
   token |-> [type |-> "", start |-> 0, length |-> 0, line |-> 0]]

is_at_end(l) == l.current >= Len(l.source)

make_token(l, type) ==
  [l EXCEPT !.token = [type |-> type, start |-> l.start, length |-> l.current - l.start,
                       line |-> l.line]]

(* the token points at the message *)
error_token(l, message) ==
  [l EXCEPT !.token = [type |-> "TOKEN_ERROR", start |-> message, length |-> Len(message),
                       line |-> l.line]]

lex_advance(l) == [l EXCEPT !.current = @ + 1]

lex_peek(l) == IF is_at_end(l) THEN NUL ELSE l.source[l.current + 1]

lex_match(l, expected) == ~is_at_end(l) /\ l.source[l.current + 1] = expected

peek_next(l) ==
  IF is_at_end(l) \/ l.current + 1 >= Len(l.source) THEN NUL ELSE l.source[l.current + 2]

(* skip_whitespace: the rest of a comment *)
RECURSIVE Comment(_)
Comment(l) == IF lex_peek(l) # "\n" /\ ~is_at_end(l) THEN Comment(lex_advance(l)) ELSE l

RECURSIVE skip_whitespace(_)
skip_whitespace(l) ==
  CASE lex_peek(l) \in {" ", "\r", "\t"} -> skip_whitespace(lex_advance(l))
    [] lex_peek(l) = "\n" -> skip_whitespace(lex_advance([l EXCEPT !.line = @ + 1]))
    [] lex_peek(l) = "/" -> IF peek_next(l) = "/" THEN skip_whitespace(Comment(l)) ELSE l
    [] OTHER -> l

RECURSIVE lex_string(_)
lex_string(l) ==
  IF lex_peek(l) # "\"" /\ ~is_at_end(l)
  THEN lex_string(lex_advance(IF lex_peek(l) = "\n" THEN [l EXCEPT !.line = @ + 1] ELSE l))
  ELSE IF is_at_end(l) THEN error_token(l, "Unterminated string.")
  ELSE make_token(lex_advance(l), "TOKEN_STRING")

is_digit(c) == c \in {"0", "1", "2", "3", "4", "5", "6", "7", "8", "9"}

is_alpha(c) ==
  c \in {"a", "b", "c", "d", "e", "f", "g", "h", "i", "j", "k", "l", "m", "n", "o", "p", "q",
         "r", "s", "t", "u", "v", "w", "x", "y", "z", "A", "B", "C", "D", "E", "F", "G", "H",
         "I", "J", "K", "L", "M", "N", "O", "P", "Q", "R", "S", "T", "U", "V", "W", "X", "Y",
         "Z", "_"}

(* number: while (is_digit(c = peek()) || c == '_') advance(); *)
RECURSIVE DigitRun(_)
DigitRun(l) ==
  IF is_digit(lex_peek(l)) \/ lex_peek(l) = "_" THEN DigitRun(lex_advance(l)) ELSE l

(* number: the return statement *)
NumberToken(l, has_fraction, has_exponent) ==
  IF has_fraction \/ has_exponent THEN make_token(l, "TOKEN_FLOAT64")
  ELSE make_token(l, "TOKEN_INT")

(* number after the `e` is consumed, with a sign taken for a digit *)
ExponentPart_unchecked(l, has_fraction) ==
  IF ~(is_digit(lex_peek(l)) \/ lex_peek(l) = "+" \/ lex_peek(l) = "-")
  THEN error_token(l, "Expect number after exponent.")
  ELSE IF ~is_digit(lex_peek(l))
  THEN NumberToken(DigitRun(lex_advance(l)), has_fraction, TRUE)
  ELSE NumberToken(DigitRun(l), has_fraction, TRUE)

(* number after the `e` is consumed *)
ExponentPart(l, has_fraction) ==
  IF ~(is_digit(lex_peek(l)) \/ lex_peek(l) = "+" \/ lex_peek(l) = "-")
  THEN error_token(l, "Expect number after exponent.")
  ELSE IF ~is_digit(lex_peek(l))
  THEN IF ~is_digit(lex_peek(lex_advance(l)))
       THEN error_token(lex_advance(l), "Expect number after exponent.")
       ELSE NumberToken(DigitRun(lex_advance(l)), has_fraction, TRUE)
  ELSE NumberToken(DigitRun(l), has_fraction, TRUE)

(* number from "Look for an exponent" on *)
Exponent(l, has_fraction) ==
  IF lex_peek(l) = "e" \/ lex_peek(l) = "E" THEN ExponentPart(lex_advance(l), has_fraction)
  ELSE NumberToken(l, has_fraction, FALSE)

(* number from "Look for a fractional part" on *)
Fraction(l) ==
  IF lex_peek(l) = "."
  THEN IF ~is_digit(lex_peek(lex_advance(l)))
       THEN error_token(lex_advance(l), "Expect digit after decimal point.")
       ELSE Exponent(DigitRun(lex_advance(l)), TRUE)
  ELSE Exponent(l, FALSE)

lex_number(l) == Fraction(DigitRun(l))

check_keyword(l, start, length, rest, type) ==
  IF /\ l.current - l.start = start + length
     /\ SubSeq(l.source, l.start + start + 1, l.start + start + length) = rest
  THEN type
  ELSE "TOKEN_IDENTIFIER"

identifier_type(l) ==
  CASE l.source[l.start + 1] = "a" -> check_keyword(l, 1, 2, <<"n", "d">>, "TOKEN_AND")
    [] l.source[l.start + 1] = "b" ->
         check_keyword(l, 1, 4, <<"r", "e", "a", "k">>, "TOKEN_BREAK")
    [] l.source[l.start + 1] = "c" ->
         check_keyword(l, 1, 4, <<"l", "a", "s", "s">>, "TOKEN_CLASS")
    [] l.source[l.start + 1] = "e" -> check_keyword(l, 1, 3, <<"l", "s", "e">>, "TOKEN_ELSE")
    [] l.source[l.start + 1] = "f" /\ l.current - l.start > 1 ->
         CASE l.source[l.start + 2] = "a" ->
                check_keyword(l, 2, 3, <<"l", "s", "e">>, "TOKEN_FALSE")
           [] l.source[l.start + 2] = "o" -> check_keyword(l, 2, 1, <<"r">>, "TOKEN_FOR")
           [] l.source[l.start + 2] = "u" -> check_keyword(l, 2, 1, <<"n">>, "TOKEN_FUN")
           [] OTHER -> "TOKEN_IDENTIFIER"
    [] l.source[l.start + 1] = "i" -> check_keyword(l, 1, 1, <<"f">>, "TOKEN_IF")
    [] l.source[l.start + 1] = "n" -> check_keyword(l, 1, 2, <<"i", "l">>, "TOKEN_NIL")
    [] l.source[l.start + 1] = "o" -> check_keyword(l, 1, 1, <<"r">>, "TOKEN_OR")
    [] l.source[l.start + 1] = "r" ->
         check_keyword(l, 1, 5, <<"e", "t", "u", "r", "n">>, "TOKEN_RETURN")
    [] l.source[l.start + 1] = "s" ->
         check_keyword(l, 1, 4, <<"u", "p", "e", "r">>, "TOKEN_SUPER")
    [] l.source[l.start + 1] = "t" /\ l.current - l.start > 1 ->
         CASE l.source[l.start + 2] = "h" -> check_keyword(l, 2, 2, <<"i", "s">>, "TOKEN_THIS")
           [] l.source[l.start + 2] = "r" -> check_keyword(l, 2, 2, <<"u", "e">>, "TOKEN_TRUE")
           [] OTHER -> "TOKEN_IDENTIFIER"
    [] l.source[l.start + 1] = "v" -> check_keyword(l, 1, 2, <<"a", "r">>, "TOKEN_VAR")
    [] l.source[l.start + 1] = "w" ->
         check_keyword(l, 1, 4, <<"h", "i", "l", "e">>, "TOKEN_WHILE")
    [] OTHER -> "TOKEN_IDENTIFIER"

RECURSIVE AlphaRun(_)
AlphaRun(l) ==
  IF is_alpha(lex_peek(l)) \/ is_digit(lex_peek(l)) THEN AlphaRun(lex_advance(l)) ELSE l

(* identifier after its while loop *)
Identified(l) == make_token(l, identifier_type(l))

identifier(l) == Identified(AlphaRun(l))

(* make_token(match('=') ? two : one) *)
Matched2(l, two, one) ==
  IF lex_match(l, "=") THEN make_token(lex_advance(l), two) ELSE make_token(l, one)

(* lex_token after c = advance() *)
Lexed(l, c) ==
  IF is_alpha(c) THEN identifier(l)
  ELSE IF is_digit(c) THEN lex_number(l)
  ELSE CASE c = "(" -> make_token(l, "TOKEN_LEFT_PAREN")
         [] c = ")" -> make_token(l, "TOKEN_RIGHT_PAREN")
         [] c = "{" -> make_token(l, "TOKEN_LEFT_BRACE")
         [] c = "}" -> make_token(l, "TOKEN_RIGHT_BRACE")
         [] c = ";" -> make_token(l, "TOKEN_SEMICOLON")
         [] c = "," -> make_token(l, "TOKEN_COMMA")
         [] c = "." -> make_token(l, "TOKEN_DOT")
         [] c = "-" -> make_token(l, "TOKEN_MINUS")
         [] c = "+" -> make_token(l, "TOKEN_PLUS")
         [] c = "/" -> make_token(l, "TOKEN_SLASH")
         [] c = "*" -> make_token(l, "TOKEN_STAR")
         [] c = "!" -> Matched2(l, "TOKEN_BANG_EQUAL", "TOKEN_BANG")
         [] c = "=" -> Matched2(l, "TOKEN_EQUAL_EQUAL", "TOKEN_EQUAL")
         [] c = ">" -> Matched2(l, "TOKEN_GREATER_EQUAL", "TOKEN_GREATER")
         [] c = "<" -> Matched2(l, "TOKEN_LESS_EQUAL", "TOKEN_LESS")
         [] c = "\"" -> lex_string(l)
         [] OTHER -> error_token(l, "Unexpected character.")

(* lex_token after skip_whitespace *)
Started_token(l) ==
  IF is_at_end(l) THEN make_token(l, "TOKEN_EOF") ELSE Lexed(lex_advance(l), lex_peek(l))

lex_token(l) == Started_token([skip_whitespace(l) EXCEPT !.start = skip_whitespace(l).current])

-----------------------------------------------------------------------------
(* init_lexer on a text, then lex_token up to the TOKEN_EOF.  from is the  *)
(* value of lexer.current when the last lex_token call was made.           *)

MaxSourceLen == 4

LexAlphabet == {"1", ".", "e", "E", "+", "-", "_", "*", " "}

Texts == UNION {[1..n -> LexAlphabet] : n \in 1..MaxSourceLen}

LexStep(x) ==
  /\ lexing' = x
  /\ UNCHANGED <<vm, parser, pc, returned, events, calls, before, snap, heights, tbl, hashing,
                 unit, conv, writing>>

LexInit ==
  /\ vm = ZeroedVM(FALSE)
  /\ parser = NoParse
  /\ pc = "idle"
  /\ returned = "none"
  /\ events = <<>>
  /\ calls = 0
  /\ before = NoStep
  /\ snap = [source |-> 0, stack |-> <<>>, frames |-> <<>>, globals |-> init_table, past |-> <<>>]
  /\ heights = NoHeights
  /\ tbl = NoTable
  /\ hashing = NoHash
  /\ unit = NoUnit
  /\ lexing = NoLexing
  /\ conv = NoConv
  /\ writing = NoWriting

InitLexer ==
  /\ lexing.at = "idle"
  /\ \E text \in Texts : LexStep([at |-> "lexing", l |-> init_lexer(text), from |-> 0])

LexToken ==
  /\ lexing.at = "lexing"
  /\ LexStep([at |-> IF lex_token(lexing.l).token.type = "TOKEN_EOF" THEN "done" ELSE "lexing",
              l |-> lex_token(lexing.l),
              from |-> lexing.l.current])

LexNext ==
  \/ InitLexer
  \/ LexToken

LexSpec == LexInit /\ [][LexNext]_vars

-----------------------------------------------------------------------------
(* The character of a text at an offset, NUL from the end of the text on.  *)
CharAt(text, k) == IF k < Len(text) THEN text[k + 1] ELSE NUL

(* The first offset from k on that holds neither a digit nor `_`. *)
RunEnd(text, k) ==
  CHOOSE j \in k..Len(text) :
    /\ \A m \in k..(j - 1) : is_digit(CharAt(text, m)) \/ CharAt(text, m) = "_"
    /\ ~(is_digit(CharAt(text, j)) \/ CharAt(text, j) = "_")

(* The literal at offset s of a text, read off the text: where the integer *)
(* part ends, whether a fraction and an exponent follow, which token       *)
(* that makes and the offset of the first character it leaves.             *)
Literal(text, s) ==
  LET whole == RunEnd(text, s)
      dot == CharAt(text, whole) = "."
      fraction == dot /\ is_digit(CharAt(text, whole + 1))
      mantissa == IF fraction THEN RunEnd(text, whole + 1) ELSE whole
      e == CharAt(text, mantissa) \in {"e", "E"}
      sign == CharAt(text, mantissa + 1) \in {"+", "-"}
      digits == IF sign THEN mantissa + 2 ELSE mantissa + 1
      exponent == e /\ is_digit(CharAt(text, digits))
  IN  IF dot /\ ~fraction
      THEN [type |-> "TOKEN_ERROR", message |-> "Expect digit after decimal point.",
            left |-> whole + 1]
      ELSE IF e /\ ~exponent
      THEN [type |-> "TOKEN_ERROR", message |-> "Expect number after exponent.",
            left |-> digits]
      ELSE [type |-> IF fraction \/ exponent THEN "TOKEN_FLOAT64" ELSE "TOKEN_INT",
            message |-> "",
            left |-> IF exponent THEN RunEnd(text, digits) ELSE mantissa]

(* The last lex_token call found a digit at the start of its token. *)
LexedNumber ==
  /\ lexing.at # "idle"
  /\ is_digit(CharAt(lexing.l.source, lexing.l.start))
  /\ lexing.l.current > lexing.l.start

(* C39: a lex_token call whose token starts with a digit returns            *)
(* TOKEN_FLOAT64 when the literal has a fraction or an exponent and        *)
(* TOKEN_INT otherwise, the token spanning the literal; it returns         *)
(* TOKEN_ERROR when `.` is not followed by a digit or when `e`/`E` is       *)
(* followed neither by a digit nor by a sign and a digit; in every case    *)
(* lexer.current is left at the first character the literal did not        *)
(* consume, which is where the next call starts.                           *)
C39_NumberLiteral ==
  /\ LexedNumber =>
       /\ lexing.l.token.type = Literal(lexing.l.source, lexing.l.start).type
       /\ lexing.l.current = Literal(lexing.l.source, lexing.l.start).left
       /\ lexing.l.token.type = "TOKEN_ERROR" =>
            lexing.l.token.start = Literal(lexing.l.source, lexing.l.start).message
       /\ lexing.l.token.type # "TOKEN_ERROR" =>
            /\ lexing.l.token.start = lexing.l.start
            /\ lexing.l.token.length = lexing.l.current - lexing.l.start
  /\ lexing.at # "idle" =>
       /\ lexing.from <= lexing.l.start
       /\ \A k \in lexing.from..(lexing.l.start - 1) : CharAt(lexing.l.source, k) = " "

(* A sign after the `e` with no digit behind it made an error token, and   *)
(* the call after it started at the character behind the sign.             *)
C39_Witness ==
  /\ lexing.at = "lexing"
  /\ CharAt(lexing.l.source, 0) = "1"
  /\ CharAt(lexing.l.source, 1) = "e"
  /\ CharAt(lexing.l.source, 2) = "+"
  /\ lexing.from = 3
  /\ lexing.l.start = 3
  /\ lexing.l.token.type = "TOKEN_STAR"

-----------------------------------------------------------------------------
(* str_to_d (src/src/test.c) on the token lex_token makes of a numeric     *)
(* literal, one iteration of its loop per step.  buf is the array of       *)
(* BufLength chars; a write at an index from BufLength on and a read by    *)
(* strtod that finds no NUL in buf are undefined behaviour: outside        *)
(* records the offsets of the writes that fell behind buf, and the         *)
(* outcome of each is one of those the builds show (the write lands in     *)
(* the memory behind buf and the loop goes on, or the run is aborted).     *)

BufLength == 100

MaxTokenLength == 102

(* literals of n characters: digits only, every other character a `_`,    *)
(* and a `.` or an `e` in second place *)
Literals(n) ==
  {[k \in 1..n |-> "1"],
   [k \in 1..n |-> IF k % 2 = 0 THEN "_" ELSE "1"],
   [k \in 1..n |-> IF k = 2 THEN "." ELSE "1"],
   [k \in 1..n |-> IF k = 2 THEN "e" ELSE "1"]}

(* the literal with a `;` behind it *)
NumberTexts == {Append(text, ";") : text \in UNION {Literals(n) : n \in 1..MaxTokenLength}}

(* char buf[100] = {'\0'} *)
ZeroedBuf == [k \in 0..(BufLength - 1) |-> NUL]

(* the text strtod finds in buf, up to the first NUL or the end of buf *)
BufText(buf) ==
  [k \in 1..(CHOOSE n \in 0..BufLength :
               /\ \A m \in 0..(n - 1) : buf[m] # NUL
               /\ n < BufLength => buf[n] = NUL) |-> buf[k - 1]]

Terminated(buf) == \E k \in 0..(BufLength - 1) : buf[k] = NUL

ConvStep(x) ==
  /\ conv' = x
  /\ UNCHANGED <<vm, parser, pc, returned, events, calls, before, snap, heights, tbl, hashing,
                 unit, lexing, writing>>

ConvInit ==
  /\ vm = ZeroedVM(FALSE)
  /\ parser = NoParse
  /\ pc = "idle"
  /\ returned = "none"
  /\ events = <<>>
  /\ calls = 0
  /\ before = NoStep
  /\ snap = [source |-> 0, stack |-> <<>>, frames |-> <<>>, globals |-> init_table, past |-> <<>>]
  /\ heights = NoHeights
  /\ tbl = NoTable
  /\ hashing = NoHash
  /\ unit = NoUnit
  /\ lexing = NoLexing
  /\ conv = NoConv
  /\ writing = NoWriting

(* number() calls str_to_d(parser.previous) on a TOKEN_INT or              *)
(* TOKEN_FLOAT64 of the lexer; str_to_d up to its loop *)
StrToDEnter ==
  /\ conv.at = "idle"
  /\ \E text \in NumberTexts :
       /\ lex_token(init_lexer(text)).token.type \in {"TOKEN_INT", "TOKEN_FLOAT64"}
       /\ ConvStep([at |-> "loop", source |-> text,
                    token |-> lex_token(init_lexer(text)).token,
                    i |-> 0, ind |-> 0, buf |-> ZeroedBuf, outside |-> <<>>, read |-> <<>>,
                    terminated |-> TRUE])

(* one iteration of the loop with buf[ind] inside buf, or at a `_` *)
StrToDLoop ==
  /\ conv.at = "loop"
  /\ conv.i < conv.token.length
  /\ conv.source[conv.token.start + conv.i + 1] = "_" \/ conv.ind < BufLength
  /\ ConvStep(IF conv.source[conv.token.start + conv.i + 1] # "_"
              THEN [conv EXCEPT !.buf[conv.ind] = conv.source[conv.token.start + conv.i + 1],
                                !.ind = @ + 1, !.i = @ + 1]
              ELSE [conv EXCEPT !.i = @ + 1])

(* one iteration of the loop with buf[ind] behind the end of buf *)
StrToDOutside ==
  /\ conv.at = "loop"
  /\ conv.i < conv.token.length
  /\ conv.source[conv.token.start + conv.i + 1] # "_"
  /\ conv.ind >= BufLength
  /\ \E outcome \in {"loop", "aborted"} :
       ConvStep([conv EXCEPT !.at = outcome, !.outside = Append(@, conv.ind),
                             !.ind = @ + 1, !.i = @ + 1])

(* return strtod(buf, NULL): strtod reads buf up to a NUL; with none in    *)
(* buf it reads on into the memory behind buf, which holds a NUL at once   *)
(* or more characters *)
StrToDReturn ==
  /\ conv.at = "loop"
  /\ conv.i >= conv.token.length
  /\ \E behind \in IF Terminated(conv.buf) THEN {<<>>} ELSE {<<>>, <<"1">>, <<"e", "9">>} :
       ConvStep([conv EXCEPT !.at = "returned", !.read = BufText(conv.buf) \o behind,
                             !.terminated = Terminated(conv.buf)])

ConvNext ==
  \/ StrToDEnter
  \/ StrToDLoop
  \/ StrToDOutside
  \/ StrToDReturn

NumberSpec == ConvInit /\ [][ConvNext]_vars

(* The characters of the token that are not `_`. *)
Stripped(text) == SelectSeq(text, LAMBDA c : c # "_")

(* C38: converting a numeric token of the lexer never writes outside the   *)
(* 100-byte buffer, and the text handed to strtod is NUL-terminated inside *)
(* the buffer (and is the token without its underscores).                  *)
C38_ConversionBuffer ==
  conv.at # "idle" =>
    /\ conv.outside = <<>>
    /\ conv.at = "returned" =>
         /\ conv.terminated
         /\ conv.read = Stripped(SubSeq(conv.source, conv.token.start + 1,
                                        conv.token.start + conv.token.length))

-----------------------------------------------------------------------------
(* chunk.c on a Chunk of its own, as run_chunk_tests uses it: code and     *)
(* lines are the arrays of capacity elements (offsets from 0), the         *)
(* elements from count on are indeterminate (-1 here, never read).         *)
(* written is the list of the <<byte, line>> the calls were made with.     *)

MaxWrites == 13

(* GROW_ARRAY with a fresh array in place of realloc *)
GROW_ARRAY_fresh(pointer, old_count, new_count) == [k \in 0..(new_count - 1) |-> -1]

(* GROW_ARRAY: realloc keeps the old_count elements *)
GROW_ARRAY(pointer, old_count, new_count) ==
  [k \in 0..(new_count - 1) |-> IF k < old_count THEN pointer[k] ELSE -1]

init_chunk == [count |-> 0, capacity |-> 0, code |-> <<>>, lines |-> <<>>]

(* write_chunk up to the end of its if *)
Roomy(chunk) ==
  IF chunk.count >= chunk.capacity
  THEN [chunk EXCEPT !.capacity = GROW_CAPACITY(chunk.capacity),
                     !.code = GROW_ARRAY(chunk.code, chunk.capacity,
                                         GROW_CAPACITY(chunk.capacity)),
                     !.lines = GROW_ARRAY(chunk.lines, chunk.capacity,
                                          GROW_CAPACITY(chunk.capacity))]
  ELSE chunk

(* write_chunk from "Add this byte to the end" on *)
Added(chunk, byte, line) ==
  [chunk EXCEPT !.code[chunk.count] = byte, !.lines[chunk.count] = line, !.count = @ + 1]

(* write_chunk (chunk.c) with the line *)
write_chunk_line(chunk, byte, line) == Added(Roomy(chunk), byte, line)

ChunkStep(x) ==
  /\ writing' = x
  /\ UNCHANGED <<vm, parser, pc, returned, events, calls, before, snap, heights, tbl, hashing,
                 unit, lexing, conv>>

ChunkInit ==
  /\ vm = ZeroedVM(FALSE)
  /\ parser = NoParse
  /\ pc = "idle"
  /\ returned = "none"
  /\ events = <<>>
  /\ calls = 0
  /\ before = NoStep
  /\ snap = [source |-> 0, stack |-> <<>>, frames |-> <<>>, globals |-> init_table, past |-> <<>>]
  /\ heights = NoHeights
  /\ tbl = NoTable
  /\ hashing = NoHash
  /\ unit = NoUnit
  /\ lexing = NoLexing
  /\ conv = NoConv
  /\ writing = NoWriting

(* Chunk chunk = new_chunk(); *)
NewChunk ==
  /\ writing.at = "idle"
  /\ ChunkStep([at |-> "chunk", chunk |-> init_chunk, written |-> <<>>])

(* write_chunk(&chunk, (uint8_t) i, i) or write_chunk(&chunk, 255, 255) *)
WriteChunk ==
  /\ writing.at = "chunk"
  /\ Len(writing.written) < MaxWrites
  /\ \E i \in {Len(writing.written) + 1, UINT8_MAX} :
       ChunkStep([writing EXCEPT
                    !.chunk = write_chunk_line(writing.chunk, i % (UINT8_MAX + 1), i),
                    !.written = Append(@, <<i % (UINT8_MAX + 1), i>>)])

ChunkNext ==
  \/ NewChunk
  \/ WriteChunk

ChunkSpec == ChunkInit /\ [][ChunkNext]_vars

(* The capacity n writes need: 0 for none, then 8, and 3/2 of the capacity *)
(* before, rounded down, whenever the writes no longer fit.                *)
RECURSIVE Capacity(_, _)
Capacity(capacity, n) ==
  IF n <= capacity THEN capacity
  ELSE Capacity(IF capacity = 0 THEN 8 ELSE (3 * capacity) \div 2, n)

(* C40: after n write_chunk calls on an empty chunk count = n <= capacity, *)
(* code[i] and lines[i] are the byte and the line of the i-th call for     *)
(* every i < n, also across growth, and the capacity is 0 before the first *)
(* write, 8 after it and 3/2 of the capacity before, rounded down, after   *)
(* each later growth.                                                      *)
C40_WriteChunk ==
  writing.at = "chunk" =>
    /\ writing.chunk.count = Len(writing.written)
    /\ writing.chunk.count <= writing.chunk.capacity
    /\ \A i \in 0..(writing.chunk.count - 1) :
         /\ writing.chunk.code[i] = writing.written[i + 1][1]
         /\ writing.chunk.lines[i] = writing.written[i + 1][2]
    /\ writing.chunk.capacity = Capacity(0, Len(writing.written))
    /\ Len(writing.written) = 0 => writing.chunk.capacity = 0
    /\ Len(writing.written) = 1 => writing.chunk.capacity = 8
    /\ Len(writing.written) = 9 => writing.chunk.capacity = 12

(* Thirteen writes, with growth at the first, the ninth and the            *)
(* thirteenth, and the bytes written before each still in place. *)
C40_Witness ==
  /\ writing.at = "chunk"
  /\ writing.chunk.count = 13
  /\ writing.chunk.capacity = 18
  /\ writing.chunk.code[0] = 1
  /\ writing.chunk.lines[7] = 8
  /\ writing.chunk.code[8] = 255
  /\ writing.chunk.lines[12] = 13

====
